---- MODULE Spec2Model ----
(***************************************************************************)
(* The LOD quadtree of geo-three-ext: MapView / MapNode / MapPlaneNode /   *)
(* MapHeightNode / LODRaycast as shipped in render.mjs (the text of        *)
(* src/docs/storage-utils.mjs, lines 576-1005).                            *)
(*                                                                         *)
(* Node objects live in an arena: `nodes` is the sequence of every node    *)
(* object ever constructed, a node's identity is its index, and the        *)
(* references between objects (parentNode, children, childrenCache) are    *)
(* indices.  An object that is no longer referenced from the tree stays in *)
(* the arena, because its pending fetches still complete and still call    *)
(* back into its parent.                                                   *)
(***************************************************************************)
EXTENDS Integers, Sequences, FiniteSets, TLC

\* ---------------------------------------------------------------- bounds
\* number of createChildNodes() calls the model follows
MaxCreates == 2
\* number of effective provider swaps (setProvider / setHeightProvider)
MaxSwaps == 1
\* number of fetches that are rejected
MaxFailures == 1
\* levels below the root that the deepest provider still serves
MaxDepth == 2
\* the interval callbacks are counted modulo this
TickModulus == 2
\* the largest subdivisionRays option tried
MaxRays == 3
\* the points a click can hit on the model and on the terrain are 1..MaxPoints
MaxPoints == 2
\* completion timers of one tool that are pending at the same time
MaxTimers == 2
MaxAlignments == 1

\* ------------------------------------------------------ program constants
CHILDRENS == 4
ROOT == -1
TOP_LEFT == 0
TOP_RIGHT == 1
BOTTOM_LEFT == 2
BOTTOM_RIGHT == 3
PLANAR == 200
HEIGHT == 202
\* default root tile of MapView
RootLevel == 7
RootX == 20
RootY == 49

\* imagery providers, by identity: one provider that serves MaxDepth levels
\* below the root and two that serve one level less (the providers of
\* providers.mjs have maxZoom 20, 19 and 19)
Providers == {1, 2, 3}
\* providers that setProvider() is called with
SwapProviders == {2, 3}
\* elevation providers, by identity; 0 stands for null
HeightProviders == {0, 1, 2}

\* provider.maxZoom
ProviderMaxZoom(p) == IF p = 1 THEN RootLevel + MaxDepth ELSE RootLevel + MaxDepth - 1

MaxNodes == 1 + CHILDRENS * MaxCreates

VARIABLES
    rootMode,        \* MapView.rootMode
    provider,        \* MapView.provider
    heightProvider,  \* MapView.heightProvider
    nodes,           \* the arena of node objects; nodes[1] is MapView.root
    swaps,           \* effective provider swaps so far
    failures,        \* rejected fetches so far
    trace,           \* whether LOD ticks are recorded in `tick`
    tick,            \* the last recorded LOD tick: its candidates and its calls
    ext,             \* GeoThreeExtension: its map and its LOD timers
    lod,             \* the last `new LODRaycast(options)`: options and outcome
    quick,           \* QuickMoveTool
    full,            \* FullAlignTool
    placement,       \* the placement transform of each viewer model
    store,           \* localStorage 'align-tool-transforms': URN -> stored data
    call,            \* the last tool handler called, its inputs and its result
    storage,         \* localStorage as StorageManager uses it, and its last call
    poly,            \* the polyline measure tool and the stored polyline data
    toolbar,         \* ToolbarManager: currentMode and the mode buttons
    exported         \* the outcome of the last PolylineExporter.buildGeoJSON

\* the MapView and its bookkeeping, and the state of the application around it
mapVars == <<rootMode, provider, heightProvider, nodes, swaps, failures, trace, tick>>
toolVars == <<quick, full, placement, store, call>>
panelVars == <<poly, toolbar, exported>>
otherVars == <<storage, panelVars>>
appVars == <<ext, lod, toolVars, otherVars>>
vars == <<mapVars, appVars>>

Range(s) == {s[i] : i \in DOMAIN s}

\* ------------------------------------------------------------- MapNode
\* MapNode / MapPlaneNode / MapHeightNode constructors: the fields after
\* construction.  initialize() has started loadTexture(), and for a height
\* node with an elevation provider loadHeightGeometry().  readyCalls counts
\* the nodeReady() calls of the node.
NewNode(mode, hp, parent, loc, lvl, tx, ty) ==
    [ parentNode    |-> parent,
      location      |-> loc,
      level         |-> lvl,
      x             |-> tx,
      y             |-> ty,
      nodesLoaded   |-> 0,
      subdivided    |-> FALSE,
      childrenCache |-> <<>>,
      children      |-> <<>>,
      isMesh        |-> TRUE,
      visible       |-> FALSE,
      posY          |-> 0,
      map           |-> FALSE,
      textureLoaded |-> FALSE,
      heightLoaded  |-> FALSE,
      texPending    |-> 1,
      heightPending |-> IF mode = HEIGHT /\ hp # 0 THEN 1 ELSE 0,
      readyCalls    |-> 0 ]

\* nodeReady revealing the children one completion early
NodeReadyEarly(ns, n) ==
    LET p == ns[n].parentNode IN
    IF p # 0
    THEN LET cnt    == ns[p].nodesLoaded + 1
             reveal == cnt >= CHILDRENS - 1
             kids   == Range(ns[p].children)
         IN [i \in DOMAIN ns |->
               IF i = p
               THEN [ns[i] EXCEPT !.nodesLoaded = cnt,
                                  !.isMesh = IF reveal /\ ns[p].subdivided
                                             THEN FALSE ELSE @]
               ELSE IF reveal /\ i \in kids
                    THEN [ns[i] EXCEPT !.visible = TRUE,
                                       !.readyCalls = IF i = n THEN @ + 1 ELSE @]
                    ELSE [ns[i] EXCEPT !.readyCalls = IF i = n THEN @ + 1 ELSE @]]
    ELSE [ns EXCEPT ![n].visible = TRUE, ![n].readyCalls = @ + 1]

\* MapNode.nodeReady
NodeReady(ns, n) ==
    LET p == ns[n].parentNode IN
    IF p # 0
    THEN LET cnt    == ns[p].nodesLoaded + 1
             reveal == cnt >= CHILDRENS
             kids   == Range(ns[p].children)
         IN [i \in DOMAIN ns |->
               IF i = p
               THEN [ns[i] EXCEPT !.nodesLoaded = cnt,
                                  !.isMesh = IF reveal /\ ns[p].subdivided
                                             THEN FALSE ELSE @]
               ELSE IF reveal /\ i \in kids
                    THEN [ns[i] EXCEPT !.visible = TRUE,
                                       !.readyCalls = IF i = n THEN @ + 1 ELSE @]
                    ELSE [ns[i] EXCEPT !.readyCalls = IF i = n THEN @ + 1 ELSE @]]
    ELSE [ns EXCEPT ![n].visible = TRUE, ![n].readyCalls = @ + 1]

\* createChildNodes with the tiles of the two off-diagonal quadrants exchanged
ChildTilesTransposed(lvl, tx, ty) ==
    << [loc |-> TOP_LEFT,     level |-> lvl + 1, x |-> 2 * tx,     y |-> 2 * ty],
       [loc |-> TOP_RIGHT,    level |-> lvl + 1, x |-> 2 * tx,     y |-> 2 * ty + 1],
       [loc |-> BOTTOM_LEFT,  level |-> lvl + 1, x |-> 2 * tx + 1, y |-> 2 * ty],
       [loc |-> BOTTOM_RIGHT, level |-> lvl + 1, x |-> 2 * tx + 1, y |-> 2 * ty + 1] >>

\* createChildNodes with the tile columns one too far to the right
ChildTilesShifted(lvl, tx, ty) ==
    << [loc |-> TOP_LEFT,     level |-> lvl + 1, x |-> 2 * tx + 1, y |-> 2 * ty],
       [loc |-> TOP_RIGHT,    level |-> lvl + 1, x |-> 2 * tx + 2, y |-> 2 * ty],
       [loc |-> BOTTOM_LEFT,  level |-> lvl + 1, x |-> 2 * tx + 1, y |-> 2 * ty + 1],
       [loc |-> BOTTOM_RIGHT, level |-> lvl + 1, x |-> 2 * tx + 2, y |-> 2 * ty + 1] >>

\* the four quadrants of createChildNodes, in construction order
ChildTiles(lvl, tx, ty) ==
    << [loc |-> TOP_LEFT,     level |-> lvl + 1, x |-> 2 * tx,     y |-> 2 * ty],
       [loc |-> TOP_RIGHT,    level |-> lvl + 1, x |-> 2 * tx + 1, y |-> 2 * ty],
       [loc |-> BOTTOM_LEFT,  level |-> lvl + 1, x |-> 2 * tx,     y |-> 2 * ty + 1],
       [loc |-> BOTTOM_RIGHT, level |-> lvl + 1, x |-> 2 * tx + 1, y |-> 2 * ty + 1] >>

\* MapPlaneNode.createChildNodes / MapHeightNode.createChildNodes
CreateChildNodes(mode, hp, ns, n) ==
    LET tiles == ChildTiles(ns[n].level, ns[n].x, ns[n].y)
        base  == Len(ns)
        fresh == [k \in 1..Len(tiles) |->
                    NewNode(mode, hp, n, tiles[k].loc, tiles[k].level,
                            tiles[k].x, tiles[k].y)]
        ids   == [k \in 1..Len(tiles) |-> base + k]
    IN [ns EXCEPT ![n].posY = -1, ![n].children = @ \o ids] \o fresh

\* the early return without the test for existing children
SubdivideBlockedNoChildrenTest(ns, n, maxZoom) ==
    \/ ns[n].level + 1 > maxZoom
    \/ (ns[n].parentNode # 0 /\ ns[ns[n].parentNode].nodesLoaded < CHILDRENS)

\* the early return without the test of the parent's nodesLoaded
SubdivideBlockedNoGate(ns, n, maxZoom) ==
    \/ Len(ns[n].children) > 0
    \/ ns[n].level + 1 > maxZoom

\* the early return comparing level, not level + 1, with maxZoom
SubdivideBlockedOffByOne(ns, n, maxZoom) ==
    \/ Len(ns[n].children) > 0
    \/ ns[n].level > maxZoom
    \/ (ns[n].parentNode # 0 /\ ns[ns[n].parentNode].nodesLoaded < CHILDRENS)

\* the early return of MapNode.subdivide
SubdivideBlocked(ns, n, maxZoom) ==
    \/ Len(ns[n].children) > 0
    \/ ns[n].level + 1 > maxZoom
    \/ (ns[n].parentNode # 0 /\ ns[ns[n].parentNode].nodesLoaded < CHILDRENS)

\* subdivide that never looks at childrenCache
SubdivideNoCache(mode, hp, maxZoom, ns, n) ==
    IF SubdivideBlocked(ns, n, maxZoom) THEN ns
    ELSE CreateChildNodes(mode, hp, [ns EXCEPT ![n].subdivided = TRUE], n)

\* MapNode.subdivide
Subdivide(mode, hp, maxZoom, ns, n) ==
    IF SubdivideBlocked(ns, n, maxZoom) THEN ns
    ELSE IF ns[n].childrenCache # <<>>
         THEN [ns EXCEPT ![n].subdivided = TRUE,
                         ![n].isMesh = FALSE,
                         ![n].children = ns[n].childrenCache]
         ELSE CreateChildNodes(mode, hp, [ns EXCEPT ![n].subdivided = TRUE], n)

\* simplify that leaves the subdivided flag alone
SimplifyKeepFlag(ns, n) ==
    [ns EXCEPT ![n].childrenCache = IF Len(ns[n].children) > 0
                                    THEN ns[n].children ELSE @,
               ![n].isMesh = TRUE,
               ![n].children = <<>>,
               ![n].nodesLoaded = 0,
               ![n].visible = TRUE,
               ![n].posY = 0]

\* simplify that leaves nodesLoaded alone
SimplifyKeepCount(ns, n) ==
    [ns EXCEPT ![n].childrenCache = IF Len(ns[n].children) > 0
                                    THEN ns[n].children ELSE @,
               ![n].subdivided = FALSE,
               ![n].isMesh = TRUE,
               ![n].children = <<>>,
               ![n].visible = TRUE,
               ![n].posY = 0]

\* MapNode.simplify
Simplify(ns, n) ==
    [ns EXCEPT ![n].childrenCache = IF Len(ns[n].children) > 0
                                    THEN ns[n].children ELSE @,
               ![n].subdivided = FALSE,
               ![n].isMesh = TRUE,
               ![n].children = <<>>,
               ![n].nodesLoaded = 0,
               ![n].visible = TRUE,
               ![n].posY = 0]

\* the continuation of loadTexture after the fetch resolved
TextureLoaded(mode, hp, ns, n) ==
    LET got == [ns EXCEPT ![n].texPending = @ - 1, ![n].map = TRUE] IN
    IF mode = HEIGHT
    THEN LET marked == [got EXCEPT ![n].textureLoaded = TRUE] IN
         IF marked[n].heightLoaded \/ hp = 0 THEN NodeReady(marked, n) ELSE marked
    ELSE NodeReady(got, n)

\* the continuation of MapHeightNode.loadHeightGeometry after the fetch resolved
HeightGeometryLoaded(ns, n) ==
    LET marked == [ns EXCEPT ![n].heightPending = @ - 1, ![n].heightLoaded = TRUE] IN
    IF marked[n].textureLoaded THEN NodeReady(marked, n) ELSE marked

\* ------------------------------------------------------------- MapView
RECURSIVE Descendants(_, _)
\* Object3D.traverse below a node: the node and everything under children
Descendants(ns, n) ==
    {n} \cup UNION {Descendants(ns, ns[n].children[k]) : k \in DOMAIN ns[n].children}

\* the nodes MapView.traverse visits
Attached(ns) == Descendants(ns, 1)

\* MapView.clear
Clear(ns) ==
    LET att == Attached(ns) IN
    [i \in DOMAIN ns |->
        IF i \in att
        THEN [ns[i] EXCEPT !.childrenCache = <<>>, !.texPending = @ + 1]
        ELSE ns[i]]

\* ----------------------------------------------------------- LODRaycast
\* LODRaycast constructor defaults; thresholds in hundredths
subdivisionRays == 2
thresholdUp == 60
thresholdDown == 15
powerDistance == FALSE
scaleDistance == TRUE

\* length of the first column of the root's matrixWorld (MapPlaneNode.BASE_SCALE.x,
\* the earth perimeter), in model units; every level halves it
BASE_SCALE == 24

\* ray-hit distances the rays of a tick can report, in the same units
Distances == {6, 52, 104, 832}
\* hits one ray reports
MaxHitsPerRay == 1

RECURSIVE Pow(_, _)
Pow(b, e) == IF e <= 0 THEN 1 ELSE b * Pow(b, e - 1)

\* LODRaycast.calculateDistance, as the exact fraction num / den
calculateDistance(ns, n, distance) ==
    LET d1 == IF powerDistance THEN Pow(distance * 2, ns[n].level) ELSE distance
    IN IF scaleDistance
       THEN [num |-> 13 * BASE_SCALE, den |-> 10 * Pow(2, ns[n].level - RootLevel) * d1]
       ELSE [num |-> d1, den |-> 1]

\* score >= threshold
AboveOrEqual(score, threshold) == score.num * 100 >= threshold * score.den

\* score > threshold and score < threshold, threshold in hundredths
Above(score, threshold) == score.num * 100 > threshold * score.den
Below(score, threshold) == score.num * 100 < threshold * score.den

\* the loop of updateLOD without the return after a call
RECURSIVE LODCallsNoReturn(_, _, _)
LODCallsNoReturn(ns, intersects, i) ==
    IF i > Len(intersects) THEN <<>>
    ELSE LET node     == intersects[i].object
             distance == calculateDistance(ns, node, intersects[i].distance)
         IN (IF Above(distance, thresholdUp)
             THEN << [op |-> "subdivide", node |-> node, by |-> i] >>
             ELSE IF Below(distance, thresholdDown) /\ ns[node].parentNode # 0
                  THEN << [op |-> "simplify", node |-> ns[node].parentNode, by |-> i] >>
                  ELSE <<>>)
            \o LODCallsNoReturn(ns, intersects, i + 1)

\* the loop of updateLOD ending at a candidate under thresholdDown that has
\* no parent
RECURSIVE LODCallsRootEnds(_, _, _)
LODCallsRootEnds(ns, intersects, i) ==
    IF i > Len(intersects) THEN <<>>
    ELSE LET node     == intersects[i].object
             distance == calculateDistance(ns, node, intersects[i].distance)
         IN IF Above(distance, thresholdUp)
            THEN << [op |-> "subdivide", node |-> node, by |-> i] >>
            ELSE IF Below(distance, thresholdDown)
                 THEN IF ns[node].parentNode # 0
                      THEN << [op |-> "simplify", node |-> ns[node].parentNode, by |-> i] >>
                      ELSE <<>>
                 ELSE LODCallsRootEnds(ns, intersects, i + 1)

\* the loop of LODRaycast.updateLOD from candidate i on: the calls it makes
RECURSIVE LODCalls(_, _, _)
LODCalls(ns, intersects, i) ==
    IF i > Len(intersects) THEN <<>>
    ELSE LET node     == intersects[i].object
             distance == calculateDistance(ns, node, intersects[i].distance)
         IN IF Above(distance, thresholdUp)
            THEN << [op |-> "subdivide", node |-> node, by |-> i] >>
            ELSE IF Below(distance, thresholdDown) /\ ns[node].parentNode # 0
                 THEN << [op |-> "simplify", node |-> ns[node].parentNode, by |-> i] >>
                 ELSE LODCalls(ns, intersects, i + 1)

\* LODRaycast.gatherIntersections: the hits of the rays, ray after ray
RECURSIVE gatherIntersections(_, _)
gatherIntersections(rays, t) ==
    IF t > Len(rays) THEN <<>> ELSE rays[t] \o gatherIntersections(rays, t + 1)

\* the ray loop of LODRaycast.updateLOD in the bundle docs/geo-three.ext.js:
\* every ray assigns its hits to the list
RECURSIVE bundleIntersections(_, _, _)
bundleIntersections(rays, t, intersects) ==
    IF t > Len(rays) THEN intersects ELSE bundleIntersections(rays, t + 1, rays[t])

\* what raycaster.intersectObjects can return for one ray: hits on nodes of
\* the tree whose raycast() is not switched off, nearest first
HitLists(ns) ==
    LET hits == {[object |-> n, distance |-> d] :
                    n \in {m \in Attached(ns) : ns[m].isMesh}, d \in Distances}
    IN UNION {{h \in [1..k -> hits] :
                  \A j \in 1..(k - 1) : h[j].distance <= h[j + 1].distance}
              : k \in 0..MaxHitsPerRay}

RECURSIVE ApplyCalls(_, _, _, _, _, _)
\* the effect of the calls of one tick, in order
ApplyCalls(mode, hp, maxZoom, ns, calls, i) ==
    IF i > Len(calls) THEN ns
    ELSE ApplyCalls(mode, hp, maxZoom,
                    IF calls[i].op = "subdivide"
                    THEN Subdivide(mode, hp, maxZoom, ns, calls[i].node)
                    ELSE Simplify(ns, calls[i].node),
                    calls, i + 1)

NoTick == [rays |-> <<>>, intersects |-> <<>>, calls |-> <<>>]

\* --------------------------------------------------------------- state
\* the default root tile, and the tile below it at the maxZoom of provider 2
DefaultRoot == [level |-> RootLevel, x |-> RootX, y |-> RootY]
MaxZoomRoot ==
    LET lvl == ProviderMaxZoom(2)
    IN [level |-> lvl, x |-> RootX * Pow(2, lvl - RootLevel),
        y |-> RootY * Pow(2, lvl - RootLevel)]

\* GeoThreeExtension constructor: no map, no timer.  ticks counts the interval
\* callbacks modulo TickModulus, lastTick tells how the last one ended, caught
\* whether the catch clause has logged an error since the updates started.
NoExtension ==
    [ loaded            |-> FALSE,
      lodUpdateInterval |-> FALSE,
      lodStopTimeout    |-> FALSE,
      stopTimers        |-> <<>>,
      intervalTimers    |-> 0,
      defaultTileLocation |-> DefaultRoot,
      ticks             |-> 0,
      lastTick          |-> "none",
      caught            |-> FALSE ]

\* the options a LODRaycast is constructed with: the defaults, and the values
\* tried (thresholds in hundredths)
DefaultOptions ==
    [subdivisionRays |-> subdivisionRays, thresholdUp |-> thresholdUp,
     thresholdDown |-> thresholdDown]
Thresholds == {0, thresholdDown, 30, thresholdUp, 90, 120}
LODOptions ==
    [subdivisionRays : 0..MaxRays, thresholdUp : Thresholds, thresholdDown : Thresholds]

\* LODRaycast constructor: every option is stored as given and the constructor
\* returns; it has no throw statement
NewLODRaycast(options) ==
    [ threw   |-> FALSE,
      options |-> options,
      fields  |-> [subdivisionRays |-> options.subdivisionRays,
                   thresholdUp     |-> options.thresholdUp,
                   thresholdDown   |-> options.thresholdDown,
                   powerDistance   |-> powerDistance,
                   scaleDistance   |-> scaleDistance] ]

\* ----------------------------------------------------------- geo tools
\* what a click can hit (0 is a miss), the viewer's models, and their URNs:
\* model 1 has a urn in its data, model 2 has none
Points == 1..MaxPoints
Models == {1, 2}
getModelURN(model) == IF model = 1 THEN "urn-1" ELSE "default-model"
URNs == {getModelURN(m) : m \in Models}

\* QuickMoveTool constructor.  markers counts the points drawn (two meshes
\* each), timers the pending completion timeouts, animations holds the model
\* and the target transform of every animation still running.
NewQuickMoveTool ==
    [ active       |-> FALSE,
      state        |-> "inactive",
      modelPoint   |-> 0,
      terrainPoint |-> 0,
      targetModel  |-> 0,
      markers      |-> 0,
      lines        |-> 0,
      previewLine  |-> FALSE,
      timers       |-> 0,
      animations   |-> <<>> ]

\* FullAlignTool constructor.  timers holds, for every pending completion
\* timeout, the model and the target transform of its alignment.
NewFullAlignTool ==
    [ active        |-> FALSE,
      state         |-> "inactive",
      modelPoint1   |-> 0,
      terrainPoint1 |-> 0,
      modelPoint2   |-> 0,
      terrainPoint2 |-> 0,
      targetModel   |-> 0,
      markers       |-> 0,
      lines         |-> 0,
      previewLine   |-> FALSE,
      timers        |-> <<>>,
      animations    |-> <<>> ]

\* no handler called yet.  hit is the point or the model the call is about,
\* seq alternates with every call, alignments counts the Full Align
\* alignments started
NoCall == [tool |-> "none", op |-> "none", button |-> 0, hit |-> 0, ret |-> FALSE, seq |-> 0,
           alignments |-> 0]

\* JavaScript numbers as the transforms use them: a finite number, a
\* non-finite one (NaN, Infinity), and the null that JSON writes for those
Num(v) == [kind |-> "number", v |-> v]
NonFinite == [kind |-> "nonfinite", v |-> 0]
Null == [kind |-> "null", v |-> 0]

\* the placement transform of a model that was never moved: identity.  A
\* position is the point the picked model point lies on, a rotation an angle
\* about Z in quarter turns.
Identity == [position |-> Num(0), rotation |-> Num(0), scale |-> Num(1)]

\* ------------------------------------------------------ StorageManager
\* StorageManager.KEYS
StorageKeys == {"map-location-dialog", "polyline-tool-data", "align-tool-transforms"}

\* what localStorage holds under a key: nothing, the JSON text of a value, or
\* a text that is not JSON
NoItem == [kind |-> "none", value |-> Null]
JSONText(value) == [kind |-> "json", value |-> value]
BadText == [kind |-> "text", value |-> Null]

\* values handed to set(): numbers, a non-finite number, undefined, and an
\* object with a cycle; default values handed to get()
Undefined == [kind |-> "undefined", v |-> 0]
Circular == [kind |-> "circular", v |-> 0]
StorageValues == {Num(1), Num(2), NonFinite, Undefined, Circular}
StorageDefaults == {Null, Num(0)}

\* the outcome of a try block: an exception, or a return value
Thrown == [threw |-> TRUE, value |-> Null]
Returned(value) == [threw |-> FALSE, value |-> value]

\* localStorage.setItem(key, JSON.stringify(value)), for a value that
\* JSON.stringify accepts: undefined is stored as the text "undefined"
Stringified(value) ==
    IF value.kind = "number" THEN JSONText(value)
    ELSE IF value.kind = "undefined" THEN BadText
    ELSE JSONText(Null)

\* the try block of StorageManager.get; available tells whether localStorage
\* can be read
GetAttempt(items, key, defaultValue, available) ==
    IF ~available THEN Thrown
    ELSE IF items[key] = NoItem THEN Returned(defaultValue)
    ELSE IF items[key].kind = "json" THEN Returned(items[key].value)
    ELSE Thrown

\* StorageManager.get
StorageGet(items, key, defaultValue, available) ==
    LET attempt == GetAttempt(items, key, defaultValue, available)
    IN IF attempt.threw THEN Returned(defaultValue) ELSE attempt

\* the try block of StorageManager.set; available tells whether localStorage
\* takes the write (it throws when the quota is exceeded)
SetAttempt(items, key, value, available) ==
    IF value.kind = "circular" \/ ~available
    THEN [threw |-> TRUE, ret |-> FALSE, items |-> items]
    ELSE [threw |-> FALSE, ret |-> TRUE,
          items |-> [items EXCEPT ![key] = Stringified(value)]]

\* a set() that lets the exception of a failed write through
StorageSetUncaught(items, key, value, available) ==
    SetAttempt(items, key, value, available)

\* StorageManager.set
StorageSet(items, key, value, available) ==
    LET attempt == SetAttempt(items, key, value, available)
    IN IF attempt.threw THEN [attempt EXCEPT !.threw = FALSE, !.ret = FALSE]
       ELSE attempt

\* StorageManager.remove
StorageRemove(items, key, available) ==
    IF available
    THEN [threw |-> FALSE, ret |-> TRUE, items |-> [items EXCEPT ![key] = NoItem]]
    ELSE [threw |-> FALSE, ret |-> FALSE, items |-> items]

\* an empty localStorage, no StorageManager call made.  last records the
\* last call: its arguments, whether localStorage was available, whether an
\* exception left the call, and what it returned.
NoStorage ==
    [ items |-> [k \in StorageKeys |-> NoItem],
      last  |-> [op |-> "none", key |-> "", arg |-> Null, available |-> TRUE,
                 threw |-> FALSE, ret |-> FALSE, value |-> Null] ]

\* ------------------------------------------------- polyline measure tool
\* points of a polyline, polylines kept, and _loadFromStorage calls of one tool
MaxPolyPoints == 3
MaxPolylines == 2
MaxLoads == 2

\* terrain positions a click can hit (0: the ray misses the terrain)
PolyPositions == {1, 2}
\* Vector3.distanceTo between two of them
DistanceTo(a, b) == IF a = b THEN 0 ELSE IF a > b THEN a - b ELSE b - a

\* no entry under StorageManager.KEYS.POLYLINE_DATA
NoPolylineData ==
    [present            |-> FALSE,
     currentPolyline    |-> [points |-> <<>>, totalDistance |-> 0],
     completedPolylines |-> <<>>]

\* PolylineMeasureTool constructor, with what localStorage holds.  pointMarkers,
\* lines and labels count the overlay meshes and label elements; loads counts
\* the _loadFromStorage calls of the instance that restored stored points or
\* polylines.
NewPolylineTool(stored) ==
    [ active        |-> FALSE,
      isDataLoaded  |-> FALSE,
      points        |-> <<>>,
      totalDistance |-> 0,
      polylines     |-> <<>>,
      pointMarkers  |-> 0,
      lines         |-> 0,
      labels        |-> 0,
      previewLine   |-> FALSE,
      loads         |-> 0,
      stored        |-> stored ]

\* _drawPoint: the outer and the inner circle
DrawPoint(t) == [t EXCEPT !.pointMarkers = @ + 2]

\* _drawLine and _createLabel for one segment
DrawSegment(t) == [t EXCEPT !.lines = @ + 1, !.labels = @ + 1]

\* _saveToStorage: PolylineStorage.set(currentPolyline, this.polylines)
SaveToStorage(t) ==
    [t EXCEPT !.stored = [present            |-> TRUE,
                          currentPolyline    |-> [points        |-> t.points,
                                                  totalDistance |-> t.totalDistance],
                          completedPolylines |-> t.polylines]]

\* _addPoint
AddPoint(t, point) ==
    LET pushed == [t EXCEPT !.points = Append(@, point)]
        drawn  == IF Len(pushed.points) > 1
                  THEN DrawSegment([pushed EXCEPT !.totalDistance =
                           @ + DistanceTo(t.points[Len(t.points)], point)])
                  ELSE pushed
    IN SaveToStorage(DrawPoint(drawn))

\* _restorePolyline: a marker pair per point, a line and a label per segment
RestorePolyline(t, pointsData) ==
    [t EXCEPT !.pointMarkers = @ + 2 * Len(pointsData),
              !.lines = @ + (Len(pointsData) - 1),
              !.labels = @ + (Len(pointsData) - 1)]

RECURSIVE RestoreCompleted(_, _, _)
\* the forEach over data.completedPolylines
RestoreCompleted(t, completed, i) ==
    IF i > Len(completed) THEN t
    ELSE RestoreCompleted(IF Len(completed[i].points) > 1
                          THEN RestorePolyline(t, completed[i].points) ELSE t,
                          completed, i + 1)

RECURSIVE RestoreCurrent(_, _, _)
\* the forEach over data.currentPolyline.points
RestoreCurrent(t, pointsData, i) ==
    IF i > Len(pointsData) THEN t
    ELSE LET pushed == [t EXCEPT !.points = Append(@, pointsData[i])]
         IN RestoreCurrent(DrawPoint(IF Len(pushed.points) > 1
                                     THEN DrawSegment(pushed) ELSE pushed),
                           pointsData, i + 1)

\* _loadFromStorage
LoadFromStorage(t) ==
    LET data    == t.stored
        counted == IF data.completedPolylines # <<>> \/ data.currentPolyline.points # <<>>
                   THEN [t EXCEPT !.loads = @ + 1] ELSE t
    IN IF ~data.present THEN t
       ELSE LET restored == RestoreCompleted(
                                [counted EXCEPT !.polylines = data.completedPolylines],
                                data.completedPolylines, 1)
            IN IF Len(data.currentPolyline.points) > 0
               THEN RestoreCurrent(
                        [restored EXCEPT !.totalDistance = data.currentPolyline.totalDistance],
                        data.currentPolyline.points, 1)
               ELSE restored

\* activate of the PolylineMeasureTool in docs/providers.mjs, which loads the
\* stored data at every activation
ActivateAndLoad(t) ==
    IF t.active THEN t ELSE LoadFromStorage([t EXCEPT !.active = TRUE])

\* PolylineMeasureTool.activate
PolyActivated(t) ==
    IF t.active THEN t
    ELSE IF t.isDataLoaded
         THEN [t EXCEPT !.active = TRUE]
         ELSE [LoadFromStorage([t EXCEPT !.active = TRUE]) EXCEPT !.isDataLoaded = TRUE]

\* PolylineMeasureTool.deactivate: the drawings are kept
PolyDeactivated(t) ==
    IF t.active THEN [t EXCEPT !.active = FALSE, !.previewLine = FALSE] ELSE t

\* the first part of _finish: a last point on top of the one before it is
\* removed with its line, its label and its markers
WithoutDuplicateEnd(t) ==
    LET n == Len(t.points) IN
    IF n > 1 /\ DistanceTo(t.points[n], t.points[n - 1]) = 0
    THEN [t EXCEPT !.points = SubSeq(@, 1, n - 1),
                   !.lines = IF @ > 0 THEN @ - 1 ELSE @,
                   !.labels = IF @ > 0 THEN @ - 1 ELSE @,
                   !.pointMarkers = IF @ >= 2 THEN @ - 2 ELSE @]
    ELSE t

\* _finish: the polyline is pushed and saved, then the points are cleared
Finish(t, tileLocation) ==
    LET ended == WithoutDuplicateEnd([t EXCEPT !.previewLine = FALSE])
        saved == IF Len(ended.points) > 1
                 THEN SaveToStorage(
                        [ended EXCEPT !.polylines =
                            Append(@, [points        |-> ended.points,
                                       totalDistance |-> ended.totalDistance,
                                       tileLocation  |-> tileLocation])])
                 ELSE ended
    IN [saved EXCEPT !.points = <<>>, !.totalDistance = 0]

\* _finish of the PolylineMeasureTool in docs/providers.mjs: no test for a
\* duplicate last point, no tile location
FinishAsDrawn(t) ==
    LET ended == [t EXCEPT !.previewLine = FALSE]
        saved == IF Len(ended.points) > 1
                 THEN SaveToStorage(
                        [ended EXCEPT !.polylines =
                            Append(@, [points        |-> ended.points,
                                       totalDistance |-> ended.totalDistance])])
                 ELSE ended
    IN [saved EXCEPT !.points = <<>>, !.totalDistance = 0]

\* clearAll
ClearAll(t) ==
    SaveToStorage([t EXCEPT !.previewLine = FALSE, !.points = <<>>,
                            !.pointMarkers = 0, !.lines = 0, !.labels = 0,
                            !.totalDistance = 0, !.polylines = <<>>])

\* ------------------------------------------------------ ToolbarManager
Modes == {"quickMove", "fullAlign", "polyline"}

\* ToolbarManager constructor and createToolbar: no mode, the three mode
\* buttons in their initial state, the action buttons hidden
NewToolbarManager ==
    [ currentMode         |-> "none",
      quickMoveButton     |-> "INACTIVE",
      fullAlignButton     |-> "INACTIVE",
      polylineButton      |-> "INACTIVE",
      showReset           |-> FALSE,
      showPolylineActions |-> FALSE ]

\* ------------------------------------------------------ PolylineExporter
MaxExportPoints == 2
MaxExportPolylines == 3

\* nothing exported yet
NoExport == [done |-> FALSE, threw |-> FALSE, features |-> <<>>]

\* UnitsUtils.transformTerrainToLatLng: the coordinate of a terrain point
\* depends on the point and on the tile the polyline was drawn on
transformTerrainToLatLng(point, tileLocation) ==
    [point |-> point, tile |-> tileLocation]

\* polylineToFeature for a polyline of two points or more
polylineToFeature(polyline, contextTile, id, isInProgress) ==
    LET tileLocation == IF polyline.tileLocation # Null THEN polyline.tileLocation
                        ELSE contextTile
    IN [ type          |-> "LineString",
         coordinates   |-> [i \in DOMAIN polyline.points |->
                              transformTerrainToLatLng(polyline.points[i], tileLocation)],
         id            |-> id,
         totalDistance |-> polyline.totalDistance,
         pointCount    |-> Len(polyline.points),
         status        |-> IF isInProgress THEN "in_progress" ELSE "none" ]

\* polylinesAreIdentical: the same number of points, equal one by one
polylinesAreIdentical(polyline1, polyline2) ==
    /\ Len(polyline1.points) = Len(polyline2.points)
    /\ \A i \in DOMAIN polyline1.points : polyline1.points[i] = polyline2.points[i]

\* the 'current_location' feature of buildGeoJSON
LocationFeature(contextTile) ==
    [ type          |-> "Point",
      coordinates   |-> << [point |-> 0, tile |-> contextTile] >>,
      id            |-> <<"current_location", 0>>,
      totalDistance |-> 0,
      pointCount    |-> 1,
      status        |-> "none" ]

\* the forEach over data.completedPolylines, after the first k of them: the
\* features pushed and the polylines processed
RECURSIVE CompletedEveryOne(_, _, _)
CompletedEveryOne(completed, contextTile, k) ==
    IF k = 0
    THEN [features |-> <<>>, processed |-> <<>>]
    ELSE LET before   == CompletedEveryOne(completed, contextTile, k - 1)
             polyline == completed[k]
         IN IF Len(polyline.points) >= 2
            THEN [features  |-> Append(before.features,
                                   polylineToFeature(polyline, contextTile,
                                       <<"polyline", Len(before.processed)>>, FALSE)),
                  processed |-> Append(before.processed, polyline)]
            ELSE before

RECURSIVE CompletedFeatures(_, _, _)
CompletedFeatures(completed, contextTile, k) ==
    IF k = 0
    THEN [features |-> <<>>, processed |-> <<>>]
    ELSE LET before      == CompletedFeatures(completed, contextTile, k - 1)
             polyline    == completed[k]
             isDuplicate == \E j \in DOMAIN before.processed :
                               polylinesAreIdentical(polyline, before.processed[j])
         IN IF ~isDuplicate /\ Len(polyline.points) >= 2
            THEN [features  |-> Append(before.features,
                                   polylineToFeature(polyline, contextTile,
                                       <<"polyline", Len(before.processed)>>, FALSE)),
                  processed |-> Append(before.processed, polyline)]
            ELSE before

\* buildGeoJSON on the stored data and the tile of the geo extension; it
\* throws when nothing is stored or the extension is not loaded
buildGeoJSON(data, geoExt) ==
    IF ~data.present \/ ~geoExt.loaded
    THEN [done |-> TRUE, threw |-> TRUE, features |-> <<>>]
    ELSE LET contextTile == geoExt.defaultTileLocation
             done        == CompletedFeatures(data.completedPolylines, contextTile,
                                              Len(data.completedPolylines))
             current     == [points        |-> data.currentPolyline.points,
                             totalDistance |-> data.currentPolyline.totalDistance,
                             tileLocation  |-> Null]
             isDuplicate == \E j \in DOMAIN done.processed :
                               polylinesAreIdentical(current, done.processed[j])
             withCurrent == IF Len(current.points) >= 2 /\ ~isDuplicate
                            THEN Append(done.features,
                                    polylineToFeature(current, contextTile,
                                        <<"current_polyline", 0>>, TRUE))
                            ELSE done.features
         IN [done |-> TRUE, threw |-> FALSE,
             features |-> Append(withCurrent, LocationFeature(contextTile))]

\* the tools registered and inactive, nothing stored, no model moved
ToolsIdle ==
    /\ quick = NewQuickMoveTool
    /\ full = NewFullAlignTool
    /\ placement = [m \in Models |-> Identity]
    /\ store = [u \in URNs |-> Null]
    /\ call = NoCall

\* a MapView used without the extension; its constructor has made
\* `new LODRaycast()`
AppIdle ==
    /\ ext = NoExtension
    /\ lod = NewLODRaycast(DefaultOptions)
    /\ ToolsIdle
    /\ storage = NoStorage
    /\ poly = NewPolylineTool(NoPolylineData)
    /\ toolbar = NewToolbarManager
    /\ exported = NoExport

\* the state after `new MapView(rootMode, provider, heightProvider, rootLocation)`
Construct(mode, p, hp, loc, tr) ==
    /\ AppIdle
    /\ rootMode = mode
    /\ provider = p
    /\ heightProvider = hp
    /\ nodes = << NewNode(mode, hp, 0, ROOT, loc.level, loc.x, loc.y) >>
    /\ swaps = 0
    /\ failures = 0
    /\ trace = tr
    /\ tick = NoTick

\* a planar map on the default root tile, or a terrain map whose root tile is
\* at the provider's maxZoom
Init ==
    \/ Construct(PLANAR, 2, 0, DefaultRoot, FALSE)
    \/ Construct(HEIGHT, 2, 1, MaxZoomRoot, FALSE)

\* a planar map on the provider with the higher maxZoom, or a terrain map
InitDeep ==
    \/ Construct(PLANAR, 1, 0, DefaultRoot, FALSE)
    \/ Construct(HEIGHT, 2, 1, DefaultRoot, FALSE)

\* a planar map whose LOD ticks are recorded
InitTraced == Construct(PLANAR, 2, 0, DefaultRoot, TRUE)

\* a fetchTile promise of loadTexture resolves
TextureDone(n) ==
    /\ n \in DOMAIN nodes
    /\ nodes[n].texPending > 0
    /\ nodes' = TextureLoaded(rootMode, heightProvider, nodes, n)
    /\ UNCHANGED <<rootMode, provider, heightProvider, swaps, failures, trace, tick, appVars>>

\* a fetchTile promise of loadTexture rejects: the async function ends there
TextureFail(n) ==
    /\ n \in DOMAIN nodes
    /\ nodes[n].texPending > 0
    /\ nodes' = [nodes EXCEPT ![n].texPending = @ - 1]
    /\ failures < MaxFailures
    /\ failures' = failures + 1
    /\ UNCHANGED <<rootMode, provider, heightProvider, swaps, trace, tick, appVars>>

\* a fetchTile promise of loadHeightGeometry resolves
HeightDone(n) ==
    /\ n \in DOMAIN nodes
    /\ nodes[n].heightPending > 0
    /\ nodes' = HeightGeometryLoaded(nodes, n)
    /\ UNCHANGED <<rootMode, provider, heightProvider, swaps, failures, trace, tick, appVars>>

\* a fetchTile promise of loadHeightGeometry rejects
HeightFail(n) ==
    /\ n \in DOMAIN nodes
    /\ nodes[n].heightPending > 0
    /\ nodes' = [nodes EXCEPT ![n].heightPending = @ - 1]
    /\ failures < MaxFailures
    /\ failures' = failures + 1
    /\ UNCHANGED <<rootMode, provider, heightProvider, swaps, trace, tick, appVars>>

\* node.subdivide() called on a node of the tree
CallSubdivide(n) ==
    /\ n \in Attached(nodes)
    /\ LET after == Subdivide(rootMode, heightProvider,
                              ProviderMaxZoom(provider), nodes, n)
       IN /\ Len(after) <= MaxNodes
          /\ nodes' = after
    /\ UNCHANGED <<rootMode, provider, heightProvider, swaps, failures, trace, tick, appVars>>

\* node.simplify() called on a node of the tree
CallSimplify(n) ==
    /\ n \in Attached(nodes)
    /\ nodes' = Simplify(nodes, n)
    /\ UNCHANGED <<rootMode, provider, heightProvider, swaps, failures, trace, tick, appVars>>

\* MapView.setProvider
SetProvider(p) ==
    /\ p \in SwapProviders
    /\ IF p # provider
       THEN /\ swaps < MaxSwaps
            /\ provider' = p
            /\ nodes' = Clear(nodes)
            /\ swaps' = swaps + 1
       ELSE UNCHANGED <<provider, nodes, swaps>>
    /\ UNCHANGED <<rootMode, heightProvider, failures, trace, tick, appVars>>

\* MapView.setHeightProvider
SetHeightProvider(p) ==
    /\ p \in HeightProviders
    /\ IF p # heightProvider
       THEN /\ swaps < MaxSwaps
            /\ heightProvider' = p
            /\ nodes' = Clear(nodes)
            /\ swaps' = swaps + 1
       ELSE UNCHANGED <<heightProvider, nodes, swaps>>
    /\ UNCHANGED <<rootMode, provider, failures, trace, tick, appVars>>

\* what one updateLOD call can do in a tree: for every outcome of its rays, the
\* candidates gathered and the calls made (the candidates are kept only when
\* ticks are recorded)
TickOutcomes(ns, keep) ==
    {LET intersects == gatherIntersections(rays, 1)
     IN [rays       |-> IF keep THEN rays ELSE <<>>,
         intersects |-> IF keep THEN intersects ELSE <<>>,
         calls      |-> LODCalls(ns, intersects, 1)]
     : rays \in [1..subdivisionRays -> HitLists(ns)]}

\* the same for LODRaycast.updateLOD of the bundle docs/geo-three.ext.js
BundleTickOutcomes(ns, keep) ==
    {LET intersects == bundleIntersections(rays, 1, <<>>)
     IN [rays       |-> IF keep THEN rays ELSE <<>>,
         intersects |-> IF keep THEN intersects ELSE <<>>,
         calls      |-> LODCalls(ns, intersects, 1)]
     : rays \in [1..subdivisionRays -> HitLists(ns)]}

\* one interval tick of GeoThreeExtension.startLODUpdates: LODRaycast.updateLOD
UpdateLOD ==
    \E outcome \in TickOutcomes(nodes, trace) :
        LET after == ApplyCalls(rootMode, heightProvider,
                                ProviderMaxZoom(provider), nodes, outcome.calls, 1)
        IN /\ Len(after) <= MaxNodes
           /\ nodes' = after
           /\ tick' = IF trace THEN outcome ELSE tick
           /\ UNCHANGED <<rootMode, provider, heightProvider, swaps, failures, trace, appVars>>

\* one interval tick when the page runs the bundle docs/geo-three.ext.js
UpdateLODBundle ==
    \E outcome \in BundleTickOutcomes(nodes, trace) :
        LET after == ApplyCalls(rootMode, heightProvider,
                                ProviderMaxZoom(provider), nodes, outcome.calls, 1)
        IN /\ Len(after) <= MaxNodes
           /\ nodes' = after
           /\ tick' = IF trace THEN outcome ELSE tick
           /\ UNCHANGED <<rootMode, provider, heightProvider, swaps, failures, trace, appVars>>

LoadsDone ==
    \E n \in 1..MaxNodes : TextureDone(n) \/ HeightDone(n)

LoadsFail ==
    \E n \in 1..MaxNodes : TextureFail(n) \/ HeightFail(n)

Swaps ==
    \/ \E p \in SwapProviders : SetProvider(p)
    \/ \E p \in HeightProviders : SetHeightProvider(p)

\* the map as the extension runs it: LOD ticks, fetches that resolve, and
\* provider swaps
Next ==
    \/ UpdateLOD
    \/ LoadsDone
    \/ Swaps

Spec == Init /\ [][Next]_vars

\* the map with its providers left alone: LOD ticks and fetches that resolve
\* or reject
NextStatic ==
    \/ UpdateLOD
    \/ LoadsDone
    \/ LoadsFail

SpecStatic == InitDeep /\ [][NextStatic]_vars

\* subdivide() and simplify() called directly on nodes of the tree
NextAPI ==
    \/ \E n \in 1..MaxNodes : CallSubdivide(n)
    \/ \E n \in 1..MaxNodes : CallSimplify(n)
    \/ LoadsDone

SpecAPI == InitDeep /\ [][NextAPI]_vars

\* LOD ticks with their candidates and calls recorded
NextLOD ==
    \/ UpdateLOD
    \/ \E n \in 1..MaxNodes : TextureDone(n)

SpecLOD == InitTraced /\ [][NextLOD]_vars

\* the LOD ticks of the bundle docs/geo-three.ext.js over a planar map
NextBundle ==
    \/ UpdateLODBundle
    \/ \E n \in 1..MaxNodes : TextureDone(n)

SpecBundle == InitTraced /\ [][NextBundle]_vars

\* ---------------------------------------------------- GeoThreeExtension
\* the stop timeouts one extension may have pending
MaxStopTimers == 2

\* `if (this.lodStopTimeout) clearTimeout(this.lodStopTimeout)`: the field
\* holds the timeout scheduled last, which is cancelled unless it has fired.
\* stopTimers lists the pending stop timeouts, oldest first, each with the
\* number of camera changes since it was scheduled.
ClearStopTimeout(e) ==
    IF e.lodStopTimeout /\ e.stopTimers # <<>>
    THEN SubSeq(e.stopTimers, 1, Len(e.stopTimers) - 1)
    ELSE e.stopTimers

\* a stop timeout scheduled at a camera change
ScheduleStop(timers) == [i \in DOMAIN timers |-> timers[i] + 1] \o <<0>>

\* the interval timers one extension may have live
MaxIntervalTimers == 2

\* startLODUpdates without its `already running` return
StartLODUpdatesAgain(e) ==
    [e EXCEPT !.lodUpdateInterval = TRUE, !.intervalTimers = @ + 1]

\* startLODUpdates: setInterval unless the field holds an interval.
\* intervalTimers counts the interval timers set and not cleared.
StartLODUpdates(e) ==
    IF e.lodUpdateInterval THEN e
    ELSE [e EXCEPT !.lodUpdateInterval = TRUE, !.intervalTimers = @ + 1]

\* `if (this.lodUpdateInterval) clearInterval(this.lodUpdateInterval)`
ClearInterval(e) ==
    IF e.lodUpdateInterval /\ e.intervalTimers > 0
    THEN e.intervalTimers - 1
    ELSE e.intervalTimers

\* onCameraChange scheduling a stop timeout without clearing the pending one
ScheduleStopTimeout(e) ==
    [StartLODUpdates(e) EXCEPT !.lodStopTimeout = TRUE,
                               !.stopTimers = ScheduleStop(e.stopTimers)]

\* the body of onCameraChange: the interval is started unless it runs, the
\* pending stop timeout is cleared and a new one is scheduled
RescheduleStopTimeout(e) ==
    [StartLODUpdates(e) EXCEPT !.lodStopTimeout = TRUE,
                               !.stopTimers = ScheduleStop(ClearStopTimeout(e))]

\* stopLODUpdates leaving the interval timer set
StopLODUpdatesKeepsInterval(e) ==
    [e EXCEPT !.lodStopTimeout = FALSE, !.stopTimers = ClearStopTimeout(e),
              !.lastTick = "none", !.caught = FALSE]

\* stopLODUpdates: both timers cleared
StopLODUpdates(e) ==
    [e EXCEPT !.lodUpdateInterval = FALSE, !.intervalTimers = ClearInterval(e),
              !.lodStopTimeout = FALSE, !.stopTimers = ClearStopTimeout(e),
              !.lastTick = "none", !.caught = FALSE]

\* an interval callback whose exception ends the interval
TickCaughtStops(e) ==
    [e EXCEPT !.ticks = (@ + 1) % TickModulus, !.lastTick = "error",
              !.caught = TRUE, !.lodUpdateInterval = FALSE]

\* the catch clause of the interval callback: the error is logged
TickCaught(e) ==
    [e EXCEPT !.ticks = (@ + 1) % TickModulus, !.lastTick = "error", !.caught = TRUE]

\* the interval callback ending without an exception
TickReturned(e) ==
    [e EXCEPT !.ticks = (@ + 1) % TickModulus, !.lastTick = "ok"]

\* the state before load(): the extension constructed, no MapView yet (the
\* map variables hold what load() will pass to the MapView constructor)
InitExtension ==
    /\ rootMode = HEIGHT
    /\ provider = 2
    /\ heightProvider = 1
    /\ nodes = <<>>
    /\ swaps = 0
    /\ failures = 0
    /\ trace = FALSE
    /\ tick = NoTick
    /\ AppIdle

\* GeoThreeExtension.load: the MapView is created and the camera listener added
Load ==
    /\ ~ext.loaded
    /\ nodes' = << NewNode(rootMode, heightProvider, 0, ROOT,
                          ext.defaultTileLocation.level, ext.defaultTileLocation.x,
                          ext.defaultTileLocation.y) >>
    /\ ext' = [ext EXCEPT !.loaded = TRUE]
    /\ UNCHANGED <<rootMode, provider, heightProvider, swaps, failures, trace, tick, lod, toolVars, otherVars>>

\* GeoThreeExtension.unload: listener removed, updates stopped, map dropped
Unload ==
    /\ ext.loaded
    /\ nodes' = <<>>
    /\ ext' = [StopLODUpdates(ext) EXCEPT !.loaded = FALSE]
    /\ UNCHANGED <<rootMode, provider, heightProvider, swaps, failures, trace, tick, lod, toolVars, otherVars>>

\* GeoThreeExtension.onCameraChange: the interval is started unless it runs,
\* and the stop timeout is set anew
OnCameraChange ==
    /\ ext.loaded
    /\ ext' = RescheduleStopTimeout(ext)
    /\ Len(ext'.stopTimers) <= MaxStopTimers
    /\ ext'.intervalTimers <= MaxIntervalTimers
    /\ UNCHANGED <<mapVars, lod, toolVars, otherVars>>

\* a pending stop timeout fires, lodContinueDuration after it was scheduled
\* (the oldest first): its callback is stopLODUpdates
StopTimeoutFires ==
    /\ ext.stopTimers # <<>>
    /\ ext' = StopLODUpdates([ext EXCEPT !.stopTimers = Tail(@)])
    /\ UNCHANGED <<mapVars, lod, toolVars, otherVars>>

\* the interval callback of startLODUpdates: updateLOD inside try/catch.  An
\* exception is thrown either before updateLOD has changed the tree or after
\* it has returned, and is caught in the callback.
IntervalTick ==
    /\ ext.intervalTimers > 0
    /\ IF ~ext.loaded
       THEN /\ ext' = TickReturned(ext)
            /\ UNCHANGED <<mapVars, lod, toolVars, otherVars>>
       ELSE \/ /\ ext' = TickCaught(ext)
               /\ UNCHANGED <<mapVars, lod, toolVars, otherVars>>
            \/ \E outcome \in TickOutcomes(nodes, FALSE) :
                 LET after == ApplyCalls(rootMode, heightProvider,
                                         ProviderMaxZoom(provider), nodes,
                                         outcome.calls, 1)
                 IN /\ Len(after) <= MaxNodes
                    /\ nodes' = after
                    /\ ext' \in {TickReturned(ext), TickCaught(ext)}
                    /\ UNCHANGED <<rootMode, provider, heightProvider, swaps,
                                   failures, trace, tick, lod, toolVars, otherVars>>

\* the extension in the viewer: load and unload, camera changes, the two
\* timers, and fetches that resolve
NextTimer ==
    \/ Load
    \/ Unload
    \/ OnCameraChange
    \/ StopTimeoutFires
    \/ IntervalTick
    \/ LoadsDone

SpecTimer == InitExtension /\ [][NextTimer]_vars

\* the tile locations setTileLocation is called with
TileLocations == {DefaultRoot, [DefaultRoot EXCEPT !.x = RootX + 1]}

\* GeoThreeExtension.setTileLocation: the location is kept and, when there is
\* a map, it is replaced by a new MapView rooted at the location; the timers
\* are left as they are
TileLocationSet(loc) ==
    /\ ext' = [ext EXCEPT !.defaultTileLocation = loc]
    /\ nodes' = IF ext.loaded
                THEN << NewNode(rootMode, heightProvider, 0, ROOT, loc.level, loc.x, loc.y) >>
                ELSE nodes

SetTileLocation(loc) ==
    /\ TileLocationSet(loc)
    /\ UNCHANGED <<rootMode, provider, heightProvider, swaps, failures, trace, tick, lod, toolVars, otherVars>>

\* the extension in the viewer with its map moved to other tiles
NextLifecycle ==
    \/ Load
    \/ Unload
    \/ OnCameraChange
    \/ StopTimeoutFires
    \/ IntervalTick
    \/ LoadsDone
    \/ \E loc \in TileLocations : SetTileLocation(loc)

SpecLifecycle == InitExtension /\ [][NextLifecycle]_vars

\* the same, with a stop timeout that stays pending firing in the end
SpecDebounce == InitExtension /\ [][NextTimer]_vars /\ WF_vars(StopTimeoutFires)

\* ---------------------------------------------------- LODRaycast options
\* `new LODRaycast(options)` for any of the options tried
ConfigureLOD(options) ==
    /\ lod' = NewLODRaycast(options)
    /\ UNCHANGED <<mapVars, ext, toolVars, otherVars>>

NextConfig == \E options \in LODOptions : ConfigureLOD(options)

\* a planar map whose LOD controller is constructed again with other options
SpecConfig == InitTraced /\ [][NextConfig]_vars

\* -------------------------------------------- StorageManager in use
\* StorageManager.get(key, defaultValue)
Get(key, defaultValue, available) ==
    LET got == StorageGet(storage.items, key, defaultValue, available)
    IN /\ storage' = [storage EXCEPT !.last =
                         [op |-> "get", key |-> key, arg |-> defaultValue,
                          available |-> available, threw |-> got.threw,
                          ret |-> FALSE, value |-> got.value]]
       /\ UNCHANGED <<mapVars, ext, lod, toolVars, panelVars>>

\* StorageManager.set(key, value)
Set(key, value, available) ==
    LET done == StorageSet(storage.items, key, value, available)
    IN /\ storage' = [items |-> done.items,
                      last  |-> [op |-> "set", key |-> key, arg |-> value,
                                 available |-> available, threw |-> done.threw,
                                 ret |-> done.ret, value |-> Null]]
       /\ UNCHANGED <<mapVars, ext, lod, toolVars, panelVars>>

\* StorageManager.remove(key)
Remove(key, available) ==
    LET done == StorageRemove(storage.items, key, available)
    IN /\ storage' = [items |-> done.items,
                      last  |-> [op |-> "remove", key |-> key, arg |-> Null,
                                 available |-> available, threw |-> done.threw,
                                 ret |-> done.ret, value |-> Null]]
       /\ UNCHANGED <<mapVars, ext, lod, toolVars, panelVars>>

NextStorage ==
    \E key \in StorageKeys, available \in BOOLEAN :
        \/ \E defaultValue \in StorageDefaults : Get(key, defaultValue, available)
        \/ \E value \in StorageValues : Set(key, value, available)
        \/ Remove(key, available)

\* StorageManager called by the storage helpers, with a localStorage that can
\* refuse reads and writes
SpecStorage == InitTraced /\ [][NextStorage]_vars

\* ------------------------------------------------- BaseGeoTool, shared
\* BaseGeoTool.cleanup: preview, lines and point markers leave the overlay
cleanup(t) == [t EXCEPT !.previewLine = FALSE, !.lines = 0, !.markers = 0]

\* a sequence without its element k
Without(seq, k) == [i \in 1..(Len(seq) - 1) |-> IF i < k THEN seq[i] ELSE seq[i + 1]]

\* a handler call as `call` records it
Called(tool, op, button, hit, ret) ==
    [tool |-> tool, op |-> op, button |-> button, hit |-> hit, ret |-> ret,
     seq |-> 1 - call.seq, alignments |-> call.alignments]

\* -------------------------------------------------------- QuickMoveTool
\* a reset that clears the points and leaves the state as it is
QuickResetKeepsState(t) ==
    [t EXCEPT !.modelPoint = 0, !.terrainPoint = 0, !.targetModel = 0]

\* QuickMoveTool.reset
QuickReset(t) ==
    [t EXCEPT !.modelPoint = 0, !.terrainPoint = 0, !.targetModel = 0,
              !.state = "picking_model"]

\* QuickMoveTool.cancel
QuickCancel(t) == QuickReset(cleanup(t))

\* QuickMoveTool.performAlignment: the target keeps rotation and scale and
\* puts the picked model point on the terrain point; the animation and the
\* completion timeout are started
QuickPerformAlignment(t, current) ==
    LET target == [position |-> Num(t.terrainPoint), rotation |-> current.rotation,
                   scale |-> current.scale]
    IN [t EXCEPT !.animations = Append(@, [model |-> t.targetModel, target |-> target]),
                 !.timers = @ + 1]

\* QuickMoveTool.handleSingleClick: the tool after the click and the value
\* returned.  hit is the result of the hit test the state asks for (0: none),
\* model the model a model hit is on.
QuickHandleSingleClick(t, button, hit, model, current) ==
    IF ~t.active \/ button # 0 \/ t.state = "animating"
    THEN [tool |-> t, ret |-> FALSE]
    ELSE IF t.state = "picking_model" /\ hit # 0
    THEN [tool |-> [t EXCEPT !.modelPoint = hit, !.targetModel = model,
                             !.markers = @ + 1, !.state = "picking_terrain"],
          ret |-> TRUE]
    ELSE IF t.state = "picking_terrain" /\ hit # 0
    THEN [tool |-> QuickPerformAlignment(
                      [t EXCEPT !.terrainPoint = hit, !.previewLine = FALSE,
                                !.markers = @ + 1, !.lines = @ + 1,
                                !.state = "animating"],
                      current),
          ret |-> TRUE]
    ELSE [tool |-> t, ret |-> FALSE]

\* toolController.activateTool('quick-move-tool')
QuickActivate ==
    /\ ~quick.active
    /\ quick' = [quick EXCEPT !.active = TRUE, !.state = "picking_model"]
    /\ call' = Called("quick", "activate", 0, 0, FALSE)
    /\ UNCHANGED <<mapVars, otherVars, ext, lod, full, placement, store>>

\* toolController.deactivateTool('quick-move-tool')
QuickDeactivate ==
    /\ quick.active
    /\ quick' = [cleanup(quick) EXCEPT !.active = FALSE, !.state = "inactive"]
    /\ call' = Called("quick", "deactivate", 0, 0, FALSE)
    /\ UNCHANGED <<mapVars, otherVars, ext, lod, full, placement, store>>

\* QuickMoveTool.handleMouseMove over the terrain (hit) or off it (0)
QuickMouseMove(hit) ==
    /\ quick.active
    /\ quick.state # "animating"
    /\ quick' = IF quick.state = "picking_terrain" /\ quick.modelPoint # 0 /\ hit # 0
                THEN [quick EXCEPT !.previewLine = TRUE]
                ELSE quick
    /\ call' = Called("quick", "move", 0, hit, FALSE)
    /\ UNCHANGED <<mapVars, otherVars, ext, lod, full, placement, store>>

\* a mouse click dispatched to QuickMoveTool.handleSingleClick
QuickClick(button, hit, model) ==
    LET done == QuickHandleSingleClick(quick, button, hit, model,
                    placement[IF quick.targetModel # 0 THEN quick.targetModel ELSE model])
    IN /\ quick.timers < MaxTimers \/ quick.state # "picking_terrain"
       /\ Len(quick.animations) < MaxTimers \/ quick.state # "picking_terrain"
       /\ quick' = done.tool
       /\ call' = Called("quick", "click", button, hit, done.ret)
       /\ UNCHANGED <<mapVars, otherVars, ext, lod, full, placement, store>>

\* the keydown listener of the tool receives Escape
QuickEscape ==
    /\ quick.active
    /\ quick' = QuickCancel(quick)
    /\ call' = Called("quick", "escape", 0, 0, FALSE)
    /\ UNCHANGED <<mapVars, otherVars, ext, lod, full, placement, store>>

\* the completion timeout of performAlignment fires: cleanup and reset
QuickTimerFires ==
    /\ quick.timers > 0
    /\ quick' = [QuickReset(cleanup(quick)) EXCEPT !.timers = @ - 1]
    /\ call' = Called("quick", "timer", 0, 0, FALSE)
    /\ UNCHANGED <<mapVars, otherVars, ext, lod, full, placement, store>>

\* an animation of the tool draws its last frame: the model is at the target
QuickAnimationEnds(k) ==
    /\ k \in DOMAIN quick.animations
    /\ placement' = [placement EXCEPT ![quick.animations[k].model] =
                                          quick.animations[k].target]
    /\ quick' = [quick EXCEPT !.animations = Without(@, k)]
    /\ UNCHANGED <<mapVars, otherVars, ext, lod, full, store, call>>

NextQuick ==
    \/ QuickActivate
    \/ QuickDeactivate
    \/ \E hit \in 0..MaxPoints : QuickMouseMove(hit)
    \/ \E button \in {0, 2}, hit \in 0..MaxPoints, model \in Models :
          QuickClick(button, hit, model)
    \/ QuickEscape
    \/ QuickTimerFires
    \/ \E k \in 1..MaxTimers : QuickAnimationEnds(k)

\* the Quick Move tool in use on a planar map; the completion timeout fires
\* once it is due
SpecQuick == InitTraced /\ [][NextQuick]_vars /\ WF_vars(QuickTimerFires)

\* -------------------------------------------- transforms and their storage
\* planar length of the vector between two picked points, and the angle of
\* that vector in quarter turns (Math.atan2(0, 0) is 0)
PlanarLength(a, b) == IF a = b THEN 0 ELSE 1
PlanarAngle(a, b) == IF a > b THEN 2 ELSE 0

\* JavaScript arithmetic on the numbers above
Divide(x, y) == IF y = 0 THEN NonFinite ELSE Num(x \div y)
Times(a, b) ==
    IF a.kind = "number" /\ b.kind = "number" THEN Num(a.v * b.v) ELSE NonFinite
Turned(a, quarters) ==
    IF a.kind = "number" THEN Num((a.v + quarters + 4) % 4) ELSE NonFinite

\* THREE.Matrix4.compose: the matrix, named by the position, rotation and
\* scale it decomposes to; a non-finite rotation spoils the scaled axes
Compose(position, rotation, scale) ==
    IF rotation.kind = "number"
    THEN [position |-> position, rotation |-> rotation, scale |-> scale]
    ELSE [position |-> position, rotation |-> NonFinite, scale |-> NonFinite]

\* THREE.Matrix4.decompose of a matrix composed from position, rotation and
\* scale: a zero or non-finite scale leaves no rotation to recover
Decompose(m) ==
    IF m.scale.kind # "number"
    THEN [position |-> m.position, rotation |-> NonFinite, scale |-> NonFinite]
    ELSE IF m.scale.v = 0
    THEN [m EXCEPT !.rotation = NonFinite]
    ELSE m

\* ModelTransformStorage.fromMatrix4 (tileLocation and timestamp left out)
fromMatrix4(matrix) == Decompose(matrix)

\* JSON.stringify followed by JSON.parse of one number of the stored data
JSONNumber(x) == IF x.kind = "number" THEN x ELSE Null

\* ModelTransformStorage.set followed by StorageManager.get: what the stored
\* text of transformData parses to
Stored(transformData) ==
    [position |-> JSONNumber(transformData.position),
     rotation |-> JSONNumber(transformData.rotation),
     scale    |-> JSONNumber(transformData.scale)]

\* a number given to a THREE.Vector3 or THREE.Quaternion and used by
\* Matrix4.compose: null counts as 0
Composed(x) == IF x.kind = "null" THEN Num(0) ELSE x

\* ModelTransformStorage.toMatrix4
toMatrix4(transformData) ==
    Compose(Composed(transformData.position), Composed(transformData.rotation),
            Composed(transformData.scale))

\* -------------------------------------------------------- FullAlignTool
\* FullAlignTool.reset
FullReset(t) ==
    [t EXCEPT !.modelPoint1 = 0, !.terrainPoint1 = 0, !.modelPoint2 = 0,
              !.terrainPoint2 = 0, !.targetModel = 0, !.state = "picking_model_1"]

\* a cancel that resets the tool and leaves its overlay as it is
FullCancelKeepsOverlay(t) == FullReset(t)

\* FullAlignTool.cancel
FullCancel(t) == FullReset(cleanup(t))

\* the target transform of FullAlignTool.performAlignment: rotation about Z by
\* the angle between the two picked vectors, uniform scale by the ratio of
\* their lengths, and the first model point put on the first terrain point
FullTarget(t, placed) ==
    LET current     == Decompose(placed)
        scaleFactor == Divide(PlanarLength(t.terrainPoint1, t.terrainPoint2),
                              PlanarLength(t.modelPoint1, t.modelPoint2))
        angle       == PlanarAngle(t.terrainPoint1, t.terrainPoint2)
                       - PlanarAngle(t.modelPoint1, t.modelPoint2)
    IN Compose(IF scaleFactor.kind = "number" /\ current.position.kind = "number"
               THEN Num(t.terrainPoint1) ELSE NonFinite,
               Turned(current.rotation, angle),
               Times(current.scale, scaleFactor))

\* FullAlignTool.performAlignment: animateToTransform starts the animation and
\* the completion timeout
FullPerformAlignment(t, placed) ==
    LET job == [model |-> t.targetModel, target |-> FullTarget(t, placed)]
    IN [t EXCEPT !.animations = Append(@, job), !.timers = Append(@, job)]

\* the branches of FullAlignTool.handleSingleClick on the state: the tool
\* after the click and the value returned.  hit is the result of the hit test
\* the state asks for (0: none), model the model a model hit is on.
FullPick(t, hit, model, placed) ==
    IF hit = 0
    THEN [tool |-> t, ret |-> FALSE]
    ELSE IF t.state = "picking_model_1"
    THEN [tool |-> [t EXCEPT !.modelPoint1 = hit, !.targetModel = model,
                             !.markers = @ + 1, !.state = "picking_terrain_1"],
          ret |-> TRUE]
    ELSE IF t.state = "picking_terrain_1"
    THEN [tool |-> [t EXCEPT !.terrainPoint1 = hit, !.previewLine = FALSE,
                             !.markers = @ + 1, !.lines = @ + 1,
                             !.state = "picking_model_2"],
          ret |-> TRUE]
    ELSE IF t.state = "picking_model_2"
    THEN [tool |-> [t EXCEPT !.modelPoint2 = hit, !.markers = @ + 1,
                             !.state = "picking_terrain_2"],
          ret |-> TRUE]
    ELSE IF t.state = "picking_terrain_2"
    THEN [tool |-> FullPerformAlignment(
                      [t EXCEPT !.terrainPoint2 = hit, !.previewLine = FALSE,
                                !.markers = @ + 1, !.lines = @ + 1,
                                !.state = "animating"],
                      placed),
          ret |-> TRUE]
    ELSE [tool |-> t, ret |-> FALSE]

\* a click handler that takes every mouse button
FullHandleSingleClickAnyButton(t, button, hit, model, placed) ==
    IF ~t.active \/ t.state = "animating"
    THEN [tool |-> t, ret |-> FALSE]
    ELSE FullPick(t, hit, model, placed)

\* FullAlignTool.handleSingleClick
FullHandleSingleClick(t, button, hit, model, placed) ==
    IF ~t.active \/ button # 0 \/ t.state = "animating"
    THEN [tool |-> t, ret |-> FALSE]
    ELSE FullPick(t, hit, model, placed)

\* FullAlignTool.saveTransform: the storage dictionary after the target of an
\* alignment of `model` is saved
saveTransform(transform, model) ==
    [store EXCEPT ![getModelURN(model)] = Stored(fromMatrix4(transform))]

\* toolController.activateTool('full-align-tool')
FullActivate ==
    /\ ~full.active
    /\ full' = [full EXCEPT !.active = TRUE, !.state = "picking_model_1"]
    /\ call' = Called("full", "activate", 0, 0, FALSE)
    /\ UNCHANGED <<mapVars, otherVars, ext, lod, quick, placement, store>>

\* toolController.deactivateTool('full-align-tool')
FullDeactivate ==
    /\ full.active
    /\ full' = [cleanup(full) EXCEPT !.active = FALSE, !.state = "inactive"]
    /\ call' = Called("full", "deactivate", 0, 0, FALSE)
    /\ UNCHANGED <<mapVars, otherVars, ext, lod, quick, placement, store>>

\* FullAlignTool.handleMouseMove over the terrain (hit) or off it (0)
FullMouseMove(hit) ==
    /\ full.active
    /\ full.state # "animating"
    /\ full' = IF /\ hit # 0
                  /\ \/ full.state = "picking_terrain_1" /\ full.modelPoint1 # 0
                     \/ full.state = "picking_terrain_2" /\ full.modelPoint2 # 0
               THEN [full EXCEPT !.previewLine = TRUE]
               ELSE full
    /\ call' = Called("full", "move", 0, hit, FALSE)
    /\ UNCHANGED <<mapVars, otherVars, ext, lod, quick, placement, store>>

\* a mouse click dispatched to FullAlignTool.handleSingleClick
FullClick(button, hit, model) ==
    LET done == FullHandleSingleClick(full, button, hit, model,
                    placement[IF full.targetModel # 0 THEN full.targetModel ELSE model])
    IN /\ call.alignments < MaxAlignments \/ full.state # "picking_terrain_2"
       /\ full' = done.tool
       /\ call' = [Called("full", "click", button, hit, done.ret) EXCEPT
                      !.alignments = IF done.ret /\ done.tool.state = "animating"
                                     THEN @ + 1 ELSE @]
       /\ UNCHANGED <<mapVars, otherVars, ext, lod, quick, placement, store>>

\* the keydown listener of the tool receives Escape
FullEscape ==
    /\ full.active
    /\ full' = FullCancel(full)
    /\ call' = Called("full", "escape", 0, 0, FALSE)
    /\ UNCHANGED <<mapVars, otherVars, ext, lod, quick, placement, store>>

\* the oldest completion timeout of performAlignment fires: saveTransform,
\* cleanup and reset
FullTimerFires ==
    /\ full.timers # <<>>
    /\ store' = saveTransform(Head(full.timers).target, Head(full.timers).model)
    /\ full' = [FullReset(cleanup(full)) EXCEPT !.timers = Tail(@)]
    /\ call' = Called("full", "timer", 0, Head(full.timers).model, FALSE)
    /\ UNCHANGED <<mapVars, otherVars, ext, lod, quick, placement>>

\* an animation of the tool draws its last frame: the model is at the target
FullAnimationEnds(k) ==
    /\ k \in DOMAIN full.animations
    /\ placement' = [placement EXCEPT ![full.animations[k].model] =
                                          full.animations[k].target]
    /\ full' = [full EXCEPT !.animations = Without(@, k)]
    /\ UNCHANGED <<mapVars, otherVars, ext, lod, quick, store, call>>

\* GEOMETRY_LOADED_EVENT for `model`: FullAlignTool.loadTransform(model)
LoadTransform(model) ==
    LET transformData == store[getModelURN(model)]
    IN /\ placement' = IF transformData = Null THEN placement
                       ELSE [placement EXCEPT ![model] = toMatrix4(transformData)]
       /\ call' = Called("full", "load", 0, model, transformData # Null)
       /\ UNCHANGED <<mapVars, otherVars, ext, lod, quick, full, store>>

NextFull ==
    \/ FullActivate
    \/ FullDeactivate
    \/ \E hit \in 0..MaxPoints : FullMouseMove(hit)
    \/ \E button \in {0, 2}, hit \in 0..MaxPoints, model \in Models :
          FullClick(button, hit, model)
    \/ FullEscape
    \/ FullTimerFires
    \/ \E k \in 1..MaxAlignments : FullAnimationEnds(k)
    \/ \E model \in Models : LoadTransform(model)

\* the Full Align tool in use on a planar map, with models loading
SpecFull == InitTraced /\ [][NextFull]_vars

\* both align tools registered with the tool controller, the pointer either
\* off every target (0) or on point 1 of model 1 or of the terrain
NextTools ==
    \/ QuickActivate
    \/ QuickDeactivate
    \/ FullActivate
    \/ FullDeactivate
    \/ \E hit \in {0, 1} : QuickMouseMove(hit) \/ FullMouseMove(hit)
    \/ \E hit \in {0, 1} : QuickClick(0, hit, 1) \/ FullClick(0, hit, 1)
    \/ QuickEscape
    \/ FullEscape
    \/ QuickTimerFires
    \/ FullTimerFires
    \/ \E k \in 1..MaxTimers : QuickAnimationEnds(k)
    \/ \E k \in 1..MaxAlignments : FullAnimationEnds(k)

SpecTools == InitTraced /\ [][NextTools]_vars

\* both align tools activated and kept active: alignments end by their
\* completion timeout or by Escape only
NextCancel ==
    \/ QuickActivate
    \/ FullActivate
    \/ \E hit \in {0, 1} : QuickClick(0, hit, 1) \/ FullClick(0, hit, 1)
    \/ QuickEscape
    \/ FullEscape
    \/ QuickTimerFires
    \/ FullTimerFires
    \/ \E k \in 1..MaxTimers : QuickAnimationEnds(k)
    \/ \E k \in 1..MaxAlignments : FullAnimationEnds(k)

SpecCancel == InitTraced /\ [][NextCancel]_vars

\* ---------------------------------------- polyline measure tool in use
\* GeoThreeExtension.getTileLocation as _finish reads it
TileLocationNow == ext.defaultTileLocation

\* what the tool may hold: the bounds of the model
PolyBounded(t) ==
    /\ Len(t.points) <= MaxPolyPoints
    /\ Len(t.polylines) <= MaxPolylines
    /\ t.loads <= MaxLoads
    /\ t.pointMarkers <= 2 * MaxPolyPoints * (MaxPolylines + 1)

PolyStep(t) ==
    /\ PolyBounded(t)
    /\ poly' = t
    /\ UNCHANGED <<mapVars, ext, lod, toolVars, storage, toolbar, exported>>

\* the viewer activates the tool
PolyActivate == ~poly.active /\ PolyStep(PolyActivated(poly))

\* the viewer activates the tool of docs/providers.mjs that has no isDataLoaded
PolyActivateAndLoad == ~poly.active /\ PolyStep(ActivateAndLoad(poly))

\* the viewer deactivates the tool
PolyDeactivate == poly.active /\ PolyStep(PolyDeactivated(poly))

\* handleMouseMove: the preview line to the terrain point under the mouse
PolyMouseMove(hit) ==
    /\ poly.active /\ Len(poly.points) > 0 /\ hit # 0
    /\ PolyStep([poly EXCEPT !.previewLine = TRUE])

\* handleSingleClick(event, button): a left click on the terrain adds a point
PolyClick(button, hit) ==
    /\ poly.active /\ button = 0 /\ hit # 0
    /\ PolyStep(AddPoint(poly, hit))

\* _onKeyDown: Escape finishes a polyline of two or more points
PolyEscape ==
    /\ poly.active /\ Len(poly.points) > 1
    /\ PolyStep(Finish(poly, TileLocationNow))

\* the panel's clear button: clearAll
PolyClearAll == PolyStep(ClearAll(poly))

\* the page is loaded again: a new tool over what localStorage holds
PolyNewTool == PolyStep(NewPolylineTool(poly.stored))

NextPolyline ==
    \/ PolyActivate
    \/ PolyDeactivate
    \/ \E hit \in PolyPositions : PolyMouseMove(hit)
    \/ \E hit \in PolyPositions : PolyClick(0, hit)
    \/ PolyEscape
    \/ PolyClearAll
    \/ PolyNewTool

SpecPolyline == InitTraced /\ [][NextPolyline]_vars

\* handleDoubleClick of the PolylineMeasureTool in docs/providers.mjs
PolyDoubleClick(button) ==
    /\ poly.active /\ button = 0 /\ Len(poly.points) > 1
    /\ PolyStep(FinishAsDrawn(poly))

\* the same with the PolylineMeasureTool of docs/providers.mjs
NextPolylineLoads ==
    \/ PolyActivateAndLoad
    \/ PolyDeactivate
    \/ \E hit \in PolyPositions : PolyMouseMove(hit)
    \/ \E hit \in PolyPositions : PolyClick(0, hit)
    \/ PolyDoubleClick(0)
    \/ PolyClearAll

SpecPolylineLoads == InitTraced /\ [][NextPolylineLoads]_vars

\* updateActionButtonsVisibility
UpdateActionButtonsVisibility(tb) ==
    [tb EXCEPT !.showReset = tb.currentMode \in {"quickMove", "fullAlign"},
               !.showPolylineActions = tb.currentMode = "polyline"]

\* QuickMoveTool.activate and deactivate, FullAlignTool.activate and
\* deactivate, as toolController.activateTool and deactivateTool call them
QuickMoveActivated(q) ==
    IF q.active THEN q ELSE [q EXCEPT !.active = TRUE, !.state = "picking_model"]
QuickMoveDeactivated(q) ==
    IF q.active THEN [cleanup(q) EXCEPT !.active = FALSE, !.state = "inactive"] ELSE q
FullAlignActivated(f) ==
    IF f.active THEN f ELSE [f EXCEPT !.active = TRUE, !.state = "picking_model_1"]
FullAlignDeactivated(f) ==
    IF f.active THEN [cleanup(f) EXCEPT !.active = FALSE, !.state = "inactive"] ELSE f

\* PolylineTool.deactivate of docs/providers.mjs: the polyline in progress is
\* finished first
PolylineToolDeactivated(t, tileLocation) ==
    IF t.active
    THEN [Finish(t, tileLocation) EXCEPT !.active = FALSE, !.previewLine = FALSE]
    ELSE t

\* deactivateCurrentMode, on the toolbar w.toolbar and the tools w.quick,
\* w.full and w.poly
DeactivateCurrentMode(w, tileLocation) ==
    LET mode == w.toolbar.currentMode
        off  == CASE mode = "quickMove" ->
                       [w EXCEPT !.quick = QuickMoveDeactivated(@),
                                 !.toolbar.quickMoveButton = "INACTIVE"]
                  [] mode = "fullAlign" ->
                       [w EXCEPT !.full = FullAlignDeactivated(@),
                                 !.toolbar.fullAlignButton = "INACTIVE"]
                  [] mode = "polyline" ->
                       [w EXCEPT !.poly = PolylineToolDeactivated(@, tileLocation),
                                 !.toolbar.polylineButton = "INACTIVE"]
                  [] OTHER -> w
    IN [off EXCEPT !.toolbar = UpdateActionButtonsVisibility(
                                   [off.toolbar EXCEPT !.currentMode = "none"])]

\* the second part of activateMode: the mode is set, its tool activated and
\* its button put in the ACTIVE state
ModeActivated(w, mode) ==
    LET named == [w EXCEPT !.toolbar.currentMode = mode]
        on    == CASE mode = "quickMove" ->
                       [named EXCEPT !.quick = QuickMoveActivated(@),
                                     !.toolbar.quickMoveButton = "ACTIVE"]
                   [] mode = "fullAlign" ->
                       [named EXCEPT !.full = FullAlignActivated(@),
                                     !.toolbar.fullAlignButton = "ACTIVE"]
                   [] mode = "polyline" ->
                       [named EXCEPT !.poly = PolyActivated(@),
                                     !.toolbar.polylineButton = "ACTIVE"]
                   [] OTHER -> named
    IN [on EXCEPT !.toolbar = UpdateActionButtonsVisibility(on.toolbar)]

\* activateMode without the deactivation of the current mode
ActivateModeOnTop(w, mode, tileLocation) == ModeActivated(w, mode)

\* activateMode
ActivateMode(w, mode, tileLocation) ==
    ModeActivated(DeactivateCurrentMode(w, tileLocation), mode)

\* toggleMode
toggleMode(w, mode, tileLocation) ==
    IF w.toolbar.currentMode = mode
    THEN DeactivateCurrentMode(w, tileLocation)
    ELSE ActivateMode(w, mode, tileLocation)

\* --------------------------------------------------- the toolbar in use
\* a click on the mode button `mode`
ToggleMode(mode) ==
    LET after == toggleMode([toolbar |-> toolbar, quick |-> quick, full |-> full,
                             poly |-> poly], mode, TileLocationNow)
    IN /\ PolyBounded(after.poly)
       /\ toolbar' = after.toolbar
       /\ quick' = after.quick
       /\ full' = after.full
       /\ poly' = after.poly
       /\ UNCHANGED <<mapVars, ext, lod, storage, placement, store, call, exported>>

\* the mode buttons, and clicks on the canvas that go to the active tool
NextToolbar ==
    \/ \E mode \in Modes : ToggleMode(mode)
    \/ QuickClick(0, 1, 1)
    \/ FullClick(0, 1, 1)
    \/ PolyClick(0, 1)
    \/ QuickTimerFires
    \/ FullTimerFires

SpecToolbar == InitTraced /\ [][NextToolbar]_vars

\* ------------------------------------------------------ the export button
\* the polyline data a browser can hold when the page opens: polylines of
\* any length, drawn on any tile or stored without one
RECURSIVE PathLength(_)
PathLength(points) ==
    IF Len(points) < 2 THEN 0
    ELSE PathLength(SubSeq(points, 1, Len(points) - 1))
           + DistanceTo(points[Len(points) - 1], points[Len(points)])

PointSequences == UNION {[1..n -> PolyPositions] : n \in 0..MaxExportPoints}

StoredPolylines ==
    {[points |-> pts, totalDistance |-> PathLength(pts), tileLocation |-> tile] :
        pts \in PointSequences, tile \in TileLocations \cup {Null}}

StoredPolylineData ==
    {NoPolylineData} \cup
    {[present            |-> TRUE,
      currentPolyline    |-> [points |-> pts, totalDistance |-> PathLength(pts)],
      completedPolylines |-> done] :
        pts \in PointSequences,
        done \in UNION {[1..n -> StoredPolylines] : n \in 0..MaxExportPolylines}}

\* the page opens on polyline data of an earlier session
InitExport ==
    /\ \E data \in StoredPolylineData : poly = NewPolylineTool(data)
    /\ ext = NoExtension
    /\ lod = NewLODRaycast(DefaultOptions)
    /\ ToolsIdle
    /\ storage = NoStorage
    /\ toolbar = NewToolbarManager
    /\ exported = NoExport
    /\ rootMode = PLANAR
    /\ provider = 2
    /\ heightProvider = 0
    /\ nodes = << NewNode(PLANAR, 0, 0, ROOT, DefaultRoot.level, DefaultRoot.x,
                          DefaultRoot.y) >>
    /\ swaps = 0
    /\ failures = 0
    /\ trace = TRUE
    /\ tick = NoTick

\* PolylineExporter.exportToFile up to the built FeatureCollection
PolyExport ==
    /\ exported' = buildGeoJSON(poly.stored, ext)
    /\ UNCHANGED <<mapVars, ext, lod, toolVars, storage, poly, toolbar>>

NextExport ==
    \/ Load
    \/ PolyExport

SpecExport == InitExport /\ [][NextExport]_vars

\* ------------------------------------------------------ the location panel
\* what the number fields of the panel can hold when a button is clicked, as
\* parseFloat and parseInt read them: whole degrees and zoom levels inside
\* and outside the ranges, and NaN for an empty field
LatInputs == {Num(-86), Num(0), Num(85), NonFinite}
LonInputs == {Num(-181), Num(0), Num(180)}
ZoomInputs == {Num(-1), Num(0), Num(20), Num(21), NonFinite}

\* two of the preset buttons (Whistler and Patagonia, in whole degrees); a
\* preset click reads the zoom field, here a field that holds a number
Presets == {[lat |-> Num(50), lon |-> Num(-123)], [lat |-> Num(-49), lon |-> Num(-73)]}
PresetZoomInputs == {zoom \in ZoomInputs : zoom.kind = "number"}

\* the Web Mercator ordinate of a latitude in thousandths of the map height
\* from the top, for the latitudes that reach pointToTile
MercatorY(lat) ==
    CASE lat = 85 -> 1
      [] lat = 50 -> 339
      [] lat = 0 -> 500
      [] lat = -49 -> 656
      [] OTHER -> 998

\* UnitsUtils.pointToTile: the tile of a point at zoom z; below zoom 0 the
\* fractions of a tile are floored to 0
pointToTile(lon, lat, z) ==
    IF z < 0
    THEN [level |-> z, x |-> 0, y |-> 0]
    ELSE [level |-> z,
          x     |-> ((2 ^ z * (lon + 180)) \div 360) % (2 ^ z),
          y     |-> (2 ^ z * MercatorY(lat)) \div 1000]

\* the object MapLocationStorage.set writes, as JSON.stringify leaves it
StoredLocation(lat, lon, zoom) ==
    [kind |-> "location", lat |-> lat, lon |-> lon, zoom |-> zoom]

\* the input checks of the Go handler
IsNaN(n) == n.kind # "number"
OutOfRange(lat, lon, zoom) ==
    \/ lat.v < -85 \/ lat.v > 85
    \/ lon.v < -180 \/ lon.v > 180
    \/ zoom.v < 0 \/ zoom.v > 20

\* LocationPanel.applyLocation: the location is stored and the extension
\* moved to its tile
ApplyLocation(lat, lon, zoom, available) ==
    LET done == SetAttempt(storage.items, "map-location-dialog", Num(0), available)
        loc  == pointToTile(lon.v, lat.v, zoom.v)
    IN /\ storage' = [items |-> IF done.threw THEN storage.items
                                ELSE [storage.items EXCEPT !["map-location-dialog"] =
                                         JSONText(StoredLocation(lat, lon, zoom))],
                      last  |-> [op |-> "set", key |-> "map-location-dialog",
                                 arg |-> StoredLocation(lat, lon, zoom),
                                 available |-> available, threw |-> FALSE,
                                 ret |-> ~done.threw, value |-> Null]]
       /\ TileLocationSet(loc)
       /\ UNCHANGED <<rootMode, provider, heightProvider, swaps, failures, trace, tick,
                      lod, toolVars, panelVars>>

\* a click on a preset button
LocationPreset(preset, zoom, available) ==
    ApplyLocation(preset.lat, preset.lon, zoom, available)

\* a click on Go, or Enter in one of the fields
LocationGo(lat, lon, zoom, available) ==
    IF IsNaN(lat) \/ IsNaN(lon) \/ IsNaN(zoom)
    THEN UNCHANGED vars
    ELSE IF OutOfRange(lat, lon, zoom)
    THEN UNCHANGED vars
    ELSE ApplyLocation(lat, lon, zoom, available)

NextLocation ==
    \/ Load
    \/ \E preset \in Presets, zoom \in PresetZoomInputs, available \in BOOLEAN :
          LocationPreset(preset, zoom, available)
    \/ \E lat \in LatInputs, lon \in LonInputs, zoom \in ZoomInputs, available \in BOOLEAN :
          LocationGo(lat, lon, zoom, available)

SpecLocation == InitExtension /\ [][NextLocation]_vars

\* ============================================================== claims

\* nodeReady() has run for node n (no provider was swapped since its creation)
Completed(n) ==
    IF rootMode = HEIGHT
    THEN nodes[n].textureLoaded /\ (nodes[n].heightLoaded \/ heightProvider = 0)
    ELSE nodes[n].map

\* node p holds the four children that createChildNodes() gave it and has not
\* been simplified since (createChildNodes lowers position.y, simplify resets it)
HoldsNewChildren(p) == nodes[p].posY = -1

CompletedChildren(p) == {c \in Range(nodes[p].children) : Completed(c)}

\* C1: all-or-nothing reveal.  For a node that subdivided by creating four
\* children, in every order of the child loads: while fewer than four child
\* loads have completed no child is visible and the node's own surface is
\* shown; once the fourth has completed all four children are visible and the
\* surface of the (still subdivided) node is hidden.
C1_AllOrNothingReveal ==
    \A p \in DOMAIN nodes :
        HoldsNewChildren(p) =>
            /\ Len(nodes[p].children) = CHILDRENS
            /\ nodes[p].subdivided
            /\ IF Cardinality(CompletedChildren(p)) < CHILDRENS
               THEN /\ \A c \in Range(nodes[p].children) : ~nodes[c].visible
                    /\ nodes[p].isMesh
               ELSE /\ \A c \in Range(nodes[p].children) : nodes[c].visible
                    /\ ~nodes[p].isMesh

\* C1 witness: three of the four loads done and nothing revealed, in a tree
\* where another node has already revealed its four children
C1_Witness ==
    /\ \E p \in DOMAIN nodes :
          /\ HoldsNewChildren(p)
          /\ Cardinality(CompletedChildren(p)) = CHILDRENS - 1
          /\ \A c \in Range(nodes[p].children) : ~nodes[c].visible
    /\ \E p \in DOMAIN nodes :
          /\ HoldsNewChildren(p)
          /\ Cardinality(CompletedChildren(p)) = CHILDRENS
          /\ \A c \in Range(nodes[p].children) : nodes[c].visible
          /\ ~nodes[p].isMesh
\* a step in which node n goes from no children to children
GainsChildren(n) == nodes[n].children = <<>> /\ nodes'[n].children # <<>>

\* no fetch is started or finished on a node that exists before the step
SameFetches ==
    \A m \in DOMAIN nodes :
        /\ nodes'[m].texPending = nodes[m].texPending
        /\ nodes'[m].heightPending = nodes[m].heightPending

\* the quadrant of a child relative to its parent tile
QuadrantOf(parent, child) ==
    [level |-> child.level - parent.level,
     dx    |-> child.x - 2 * parent.x,
     dy    |-> child.y - 2 * parent.y]

\* C2: a subdivide() that takes the create-children path on a node at
\* (level, x, y) creates exactly four nodes, in the order top-left, top-right,
\* bottom-left, bottom-right, at (level+1, 2x, 2y), (level+1, 2x+1, 2y),
\* (level+1, 2x, 2y+1), (level+1, 2x+1, 2y+1), each with exactly one texture
\* fetch in flight, and it happens only below maxZoom with the parent gate open.
C2_FourChildren ==
    [][\A n \in DOMAIN nodes :
          (GainsChildren(n) /\ nodes[n].childrenCache = <<>>) =>
             LET base == Len(nodes) IN
             /\ Len(nodes') = base + 4
             /\ nodes'[n].children = <<base + 1, base + 2, base + 3, base + 4>>
             /\ nodes[n].level + 1 <= ProviderMaxZoom(provider)
             /\ nodes[n].parentNode # 0 =>
                    nodes[nodes[n].parentNode].nodesLoaded >= 4
             /\ \A k \in 1..4 :
                   /\ nodes'[base + k].parentNode = n
                   /\ nodes'[base + k].location = k - 1
                   /\ QuadrantOf(nodes[n], nodes'[base + k]) =
                         [level |-> 1, dx |-> (k - 1) % 2, dy |-> (k - 1) \div 2]
                   /\ nodes'[base + k].texPending = 1
                   /\ nodes'[base + k].children = <<>>
             /\ SameFetches
      ]_vars

\* C2 witness: a node other than the root holds four created children
C2_Witness ==
    \E n \in DOMAIN nodes :
        /\ nodes[n].parentNode # 0
        /\ nodes[n].posY = -1
        /\ Len(nodes[n].children) = 4

\* the nodes constructed with parent n, in construction order
RECURSIVE KidsOf(_, _)
KidsOf(n, upto) ==
    IF upto = 0 THEN <<>>
    ELSE KidsOf(n, upto - 1) \o
         (IF nodes[upto].parentNode = n THEN <<upto>> ELSE <<>>)

\* C3: round trip.  A subdivide() on a node that was subdivided and then
\* simplified puts back the cached children, which are the four nodes the
\* first subdivide() created, constructs no node and starts no fetch.
C3_RoundTrip ==
    [][\A n \in DOMAIN nodes :
          (GainsChildren(n) /\ nodes[n].childrenCache # <<>>) =>
             /\ nodes'[n].children = nodes[n].childrenCache
             /\ nodes'[n].children = KidsOf(n, Len(nodes))
             /\ Len(nodes'[n].children) = 4
             /\ Len(nodes') = Len(nodes)
             /\ SameFetches
      ]_vars

\* C3 witness: a node holds children that came back from its cache
\* (position.y is 0 again, so simplify() ran after createChildNodes())
C3_Witness ==
    \E n \in DOMAIN nodes :
        /\ nodes[n].children # <<>>
        /\ nodes[n].children = nodes[n].childrenCache
        /\ nodes[n].posY = 0
        /\ nodes[n].subdivided

\* subdivide() called on node n in the current state
SubdivideNow(n) ==
    Subdivide(rootMode, heightProvider, ProviderMaxZoom(provider), nodes, n)

\* C4: idempotence.  subdivide() on a node that has children changes nothing:
\* no node is constructed, no fetch started, no field changed.
C4_Idempotent ==
    \A n \in DOMAIN nodes :
        Len(nodes[n].children) > 0 => SubdivideNow(n) = nodes

\* C4 witness: a node with children that nothing else would stop from
\* subdividing (below maxZoom, parent gate open), with and without a cache
C4_Witness ==
    /\ \E n \in Attached(nodes) :
          /\ Len(nodes[n].children) > 0
          /\ ~SubdivideBlockedNoChildrenTest(nodes, n, ProviderMaxZoom(provider))
          /\ nodes[n].childrenCache = <<>>
    /\ \E n \in Attached(nodes) :
          /\ Len(nodes[n].children) > 0
          /\ ~SubdivideBlockedNoChildrenTest(nodes, n, ProviderMaxZoom(provider))
          /\ nodes[n].childrenCache # <<>>

\* C5: parent gating.  subdivide() on a node whose parent has nodesLoaded < 4
\* changes nothing: no children, no change of subdivided, no fetch.
C5_ParentGate ==
    \A n \in DOMAIN nodes :
        (nodes[n].parentNode # 0 /\ nodes[nodes[n].parentNode].nodesLoaded < 4) =>
            SubdivideNow(n) = nodes

\* C5 witness: a childless node below maxZoom, in the tree, whose parent has
\* counted three loads
C5_Witness ==
    \E n \in Attached(nodes) :
        /\ nodes[n].parentNode # 0
        /\ nodes[nodes[n].parentNode].nodesLoaded = 3
        /\ nodes[n].children = <<>>
        /\ ~nodes[n].subdivided
        /\ nodes[n].level + 1 <= ProviderMaxZoom(provider)

\* C6: max-zoom boundary.  A node with level + 1 > provider.maxZoom has no
\* children and is not subdivided, and subdivide() on it changes nothing.
C6_MaxZoom ==
    \A n \in DOMAIN nodes :
        nodes[n].level + 1 > ProviderMaxZoom(provider) =>
            /\ SubdivideNow(n) = nodes
            /\ nodes[n].children = <<>>
            /\ ~nodes[n].subdivided

\* C6 witness: a node at level = maxZoom, in the tree, whose parent gate is open
C6_Witness ==
    \E n \in Attached(nodes) :
        /\ nodes[n].level = ProviderMaxZoom(provider)
        /\ nodes[n].parentNode # 0
        /\ nodes[nodes[n].parentNode].nodesLoaded >= 4

TickScore(i) ==
    calculateDistance(nodes, tick.intersects[i].object, tick.intersects[i].distance)
ScoreEquals(score, threshold) == score.num * 100 = threshold * score.den
ScoreExceeds(score, threshold) == score.num * 100 > threshold * score.den
ScoreUnder(score, threshold) == score.num * 100 < threshold * score.den

\* C7: single action per tick.  One updateLOD call makes at most one
\* subdivide() or simplify() call, however many of its candidates are above
\* thresholdUp or below thresholdDown.
C7_SingleAction == Len(tick.calls) <= 1

\* C7 witness: a tick with two candidates, both above thresholdUp or below
\* thresholdDown with a parent, that made one call
C7_Witness ==
    /\ Len(tick.intersects) = 2
    /\ \A i \in 1..2 :
          \/ ScoreExceeds(TickScore(i), thresholdUp)
          \/ /\ ScoreUnder(TickScore(i), thresholdDown)
             /\ nodes[tick.intersects[i].object].parentNode # 0
    /\ tick.intersects[1].object # tick.intersects[2].object
    /\ Len(tick.calls) = 1

\* C8: the threshold comparisons are strict.  The candidate that makes a tick
\* call subdivide() has a score other than thresholdUp, the candidate that
\* makes it call simplify() has a score other than thresholdDown, and a tick
\* all of whose candidates sit exactly on a threshold makes no call.
C8_StrictThresholds ==
    /\ \A k \in DOMAIN tick.calls :
          /\ tick.calls[k].op = "subdivide" =>
                ~ScoreEquals(TickScore(tick.calls[k].by), thresholdUp)
          /\ tick.calls[k].op = "simplify" =>
                ~ScoreEquals(TickScore(tick.calls[k].by), thresholdDown)
    /\ (\A i \in DOMAIN tick.intersects :
            \/ ScoreEquals(TickScore(i), thresholdUp)
            \/ ScoreEquals(TickScore(i), thresholdDown))
       => tick.calls = <<>>

\* C8 witness: a tick whose two candidates are a node exactly at thresholdUp
\* and a child exactly at thresholdDown, and that made no call
C8_Witness ==
    /\ Len(tick.intersects) = 2
    /\ \E i \in 1..2 : ScoreEquals(TickScore(i), thresholdUp)
    /\ \E i \in 1..2 :
          /\ ScoreEquals(TickScore(i), thresholdDown)
          /\ nodes[tick.intersects[i].object].parentNode # 0
    /\ tick.calls = <<>>
\* C10: provider swap.  A setProvider(p) or setHeightProvider(p) step that
\* replaces the provider drops childrenCache on every node in the tree and
\* starts on every node in the tree one more texture load and, on a terrain
\* (height-aware) map with a height provider, one more height-geometry load.
C10_ProviderSwap ==
    [][(provider' # provider \/ heightProvider' # heightProvider) =>
         \A n \in Attached(nodes) :
            /\ nodes'[n].childrenCache = <<>>
            /\ nodes'[n].texPending = nodes[n].texPending + 1
            /\ (rootMode = HEIGHT /\ heightProvider' # 0) =>
                  nodes'[n].heightPending = nodes[n].heightPending + 1]_vars

\* C11: height readiness.  On a terrain map with an elevation provider, a
\* node's nodeReady() runs exactly once per node creation: a step runs it only
\* when the node's texture load and its height-geometry load have both
\* completed and it has not run for that node before, and it has run once both
\* loads have completed.
C11_ReadyOnce ==
    [][\A n \in DOMAIN nodes :
         (rootMode = HEIGHT /\ heightProvider # 0) =>
            /\ nodes'[n].readyCalls # nodes[n].readyCalls =>
                  /\ nodes[n].readyCalls = 0
                  /\ nodes'[n].textureLoaded /\ nodes'[n].heightLoaded
            /\ (nodes'[n].textureLoaded /\ nodes'[n].heightLoaded) =>
                  nodes'[n].readyCalls >= 1]_vars
\* the root's own load has completed: its texture and, on a terrain map, its
\* height geometry
RootLoaded ==
    IF rootMode = HEIGHT
    THEN nodes[1].textureLoaded /\ nodes[1].heightLoaded
    ELSE nodes[1].map

\* C12: root visibility.  The root is invisible until its own load has
\* completed and visible once it has, whatever the other nodes' loads do.
C12_RootVisibility == nodes[1].visible <=> RootLoaded
\* a fetch of node n was rejected: no fetch is pending and the load it was
\* for has not completed (no provider was swapped since the node's creation)
Failed(n) ==
    \/ nodes[n].texPending = 0 /\ ~nodes[n].map
    \/ rootMode = HEIGHT /\ nodes[n].heightPending = 0 /\ ~nodes[n].heightLoaded

\* the four nodes createChildNodes() gave node p, attached or in its cache
SiblingGroup(p) == Range(nodes[p].children) \cup Range(nodes[p].childrenCache)

\* C13: fetch failure.  When the fetch of one of a node's four created
\* children has failed, the completed loads of the others are still counted,
\* the node's nodesLoaded stays below 4, none of the four children is visible
\* and the node's own surface is shown.
C13_FetchFailure ==
    \A p \in DOMAIN nodes :
        (\E c \in SiblingGroup(p) : Failed(c)) =>
            /\ nodes[p].nodesLoaded < CHILDRENS
            /\ \A c \in SiblingGroup(p) : ~nodes[c].visible
            /\ nodes[p].isMesh
            /\ HoldsNewChildren(p) =>
                  nodes[p].nodesLoaded = Cardinality(CompletedChildren(p))
\* C14: an exception in a LOD tick stays in that tick.  Once a tick has
\* caught an exception, and until the updates are stopped, the interval timer
\* is still set, and whenever the interval timer is set a tick can execute.
C14_TickErrorContained ==
    /\ ext.caught => ext.lodUpdateInterval
    /\ ext.lodUpdateInterval => ENABLED IntervalTick

\* C14 witness: a tick has caught an exception and a later tick of the same
\* interval ran updateLOD to its end
C14_Witness ==
    /\ ext.caught
    /\ ext.lastTick = "ok"
    /\ ext.lodUpdateInterval
InvalidOptions(options) ==
    \/ options.thresholdDown >= options.thresholdUp
    \/ options.subdivisionRays = 0

\* C16: invalid tuning parameters are rejected.  A LODRaycast constructed with
\* thresholdDown >= thresholdUp or with subdivisionRays = 0 ends in a
\* validation error.
C16_InvalidRejected == InvalidOptions(lod.options) => lod.threw
\* the Quick Move tool is back at its first picking state with nothing picked
\* and nothing drawn
QuickCleared ==
    /\ quick.state = "picking_model"
    /\ quick.modelPoint = 0 /\ quick.terrainPoint = 0
    /\ quick.markers = 0 /\ quick.lines = 0 /\ ~quick.previewLine

\* C18: Quick Move completes.  A left click that hits the terrain after a
\* model point was picked puts the tool in the animating state, and an active
\* tool that is animating is eventually, unless it is deactivated, back at the
\* first picking state with both points cleared and no marker or line left.
C18_QuickMoveCompletes ==
    /\ [][(call'.seq # call.seq /\ call'.op = "click" /\ call'.ret
           /\ quick.state = "picking_terrain" /\ quick.modelPoint # 0)
          => quick'.state = "animating"]_vars
    /\ (quick.active /\ quick.state = "animating")
          ~> (~quick.active \/ QuickCleared)

\* C18 witness: the completion timer has fired on the active tool and left it
\* cleared, while the model is where the alignment put it
C18_Witness ==
    /\ call.tool = "quick" /\ call.op = "timer"
    /\ quick.active
    /\ QuickCleared
    /\ \E m \in Models : placement[m] # Identity

\* the position of a Full Align state in the order of its steps
Stage(state) ==
    CASE state = "picking_model_1"   -> 1
      [] state = "picking_terrain_1" -> 2
      [] state = "picking_model_2"   -> 3
      [] state = "picking_terrain_2" -> 4
      [] state = "animating"         -> 5
      [] OTHER                       -> 0

FullPoints(t) == <<t.modelPoint1, t.terrainPoint1, t.modelPoint2, t.terrainPoint2>>

\* this step is a click handled by the Full Align tool
FullClickStep == call'.seq # call.seq /\ call'.tool = "full" /\ call'.op = "click"

\* C17: the Full Align state moves forward in its order only by one stage, in
\* a left click that hit the target the state asks for and returned true; such
\* a click on the active tool before animating always moves it one stage; a
\* click that misses, and any click while animating, leaves the state and the
\* four picked points as they were and returns false.
C17_OrderedSteps ==
    [][ /\ (Stage(full.state) >= 1 /\ Stage(full'.state) > Stage(full.state)) =>
              /\ FullClickStep
              /\ call'.button = 0 /\ call'.hit # 0 /\ call'.ret
              /\ Stage(full'.state) = Stage(full.state) + 1
        /\ (FullClickStep /\ full.active /\ call'.button = 0 /\ call'.hit # 0
               /\ full.state # "animating") =>
              call'.ret /\ Stage(full'.state) = Stage(full.state) + 1
        /\ (FullClickStep /\ (call'.hit = 0 \/ full.state = "animating")) =>
              /\ ~call'.ret
              /\ full'.state = full.state
              /\ FullPoints(full') = FullPoints(full) ]_vars

\* the fourth click has hit the terrain: all four points picked, animating
C17_Witness ==
    /\ call.tool = "full" /\ call.op = "click" /\ call.ret
    /\ full.state = "animating"
    /\ \A i \in 1..4 : FullPoints(full)[i] # 0

\* the overlay of a tool holds no point marker, no line and no preview line
OverlayEmpty(t) == t.markers = 0 /\ t.lines = 0 /\ ~t.previewLine

\* this step is the Escape key handled by the given tool
EscapeStep(tool) == call'.seq # call.seq /\ call'.tool = tool /\ call'.op = "escape"

\* C19: Escape handled by an active align tool, whatever its state, leaves
\* the tool in its first picking state with every picked point null and its
\* overlay without point markers, lines and preview line.
C19_EscapeCancels ==
    [][ /\ EscapeStep("quick") =>
              /\ quick.active
              /\ quick'.state = "picking_model"
              /\ quick'.modelPoint = 0 /\ quick'.terrainPoint = 0
              /\ OverlayEmpty(quick')
        /\ EscapeStep("full") =>
              /\ full.active
              /\ full'.state = "picking_model_1"
              /\ \A i \in 1..4 : FullPoints(full')[i] = 0
              /\ OverlayEmpty(full') ]_vars

\* Escape was just handled by the Full Align tool while the completion timeout
\* of its alignment is pending, and the Quick Move tool has an alignment
\* pending as well
C19_Witness ==
    /\ call.tool = "full" /\ call.op = "escape"
    /\ full.timers # <<>>
    /\ quick.timers > 0

\* this step is the completion of a Full Align alignment
SaveStep == call'.seq # call.seq /\ call'.tool = "full" /\ call'.op = "timer"

\* this step is loadTransform(model)
LoadStep(model) ==
    call'.seq # call.seq /\ call'.op = "load" /\ call'.hit = model

\* C20: when a Full Align alignment completes, the entry under the URN of its
\* model composes to the matrix of its target transform; loadTransform for a
\* model whose URN has an entry places the model at the matrix composed from
\* the position, rotation and scale of the entry and returns true;
\* loadTransform for a URN without entry leaves the model where it is and
\* returns false.
C20_TransformRoundTrip ==
    [][ /\ SaveStep =>
              LET job   == Head(full.timers)
                  saved == store'[getModelURN(job.model)]
              IN /\ saved # Null
                 /\ Decompose(toMatrix4(saved)) = Decompose(job.target)
        /\ \A model \in Models :
              LET saved == store[getModelURN(model)]
              IN LoadStep(model) =>
                    IF saved # Null
                    THEN /\ call'.ret
                         /\ placement'[model] =
                               Compose(Composed(saved.position),
                                       Composed(saved.rotation),
                                       Composed(saved.scale))
                    ELSE ~call'.ret /\ placement' = placement ]_vars

\* C21: StorageManager reports failures as values.  No exception leaves
\* get() or set(); get() returns the default value when the key is absent or
\* holds a text that is not JSON; set() returns true when the write was made,
\* and the item then holds the text of the value, and false when it failed.
C21_FailuresAsValues ==
    LET last == storage.last
        item == storage.items[last.key]
    IN /\ ~last.threw
       /\ (last.op = "get" /\ item.kind # "json") => last.value = last.arg
       /\ last.op = "set" =>
             /\ last.ret = (last.available /\ last.arg.kind # "circular")
             /\ last.ret => item = Stringified(last.arg)

\* get() was called on a key that holds the text "undefined" and returned
\* the default value
C21_Witness ==
    /\ storage.last.op = "get"
    /\ storage.last.available
    /\ storage.items[storage.last.key] = BadText
    /\ storage.last.value = storage.last.arg

\* C22: no gaps.  Every node of the tree whose own surface is hidden (isMesh
\* false) has four children and all four are visible.
C22_NoGaps ==
    \A n \in Attached(nodes) :
        ~nodes[n].isMesh =>
            /\ Len(nodes[n].children) = CHILDRENS
            /\ \A c \in Range(nodes[n].children) : nodes[c].visible

\* the sibling groups of four: the children and the cached children of every
\* node object
SiblingGroups ==
    {Range(nodes[p].children) : p \in DOMAIN nodes}
        \cup {Range(nodes[p].childrenCache) : p \in DOMAIN nodes}

VisibleIn(group) == {c \in group : nodes[c].visible}

\* C23: in every sibling group of four, attached as children or held in
\* childrenCache, the number of visible nodes is 0 or 4.
C23_SiblingVisibility ==
    \A group \in SiblingGroups :
        Cardinality(VisibleIn(group)) \in {0, Cardinality(group)}

\* node n has completed its load at least once: it has called nodeReady()
LoadedOnce(n) == nodes[n].readyCalls > 0

\* C24: a child node is visible only if each of the four nodes of its sibling
\* group has completed its load at least once.
C24_VisibleAfterAllLoaded ==
    \A group \in SiblingGroups :
        (\E c \in group : nodes[c].visible) => \A c \in group : LoadedOnce(c)

\* a node whose parent is n calls nodeReady() in this step
ChildReadyStep(n) ==
    \E c \in DOMAIN nodes :
        nodes[c].parentNode = n /\ nodes'[c].readyCalls = nodes[c].readyCalls + 1

\* C25: nodesLoaded of every node is between 0 and 4, and it changes only by
\* +1 in a step in which one of the node's children becomes ready, or to 0 in
\* a step that leaves the node without children (simplify).
C25_LoadedCount ==
    /\ [](\A n \in DOMAIN nodes : nodes[n].nodesLoaded \in 0..CHILDRENS)
    /\ [][\A n \in DOMAIN nodes :
             \/ nodes'[n].nodesLoaded = nodes[n].nodesLoaded
             \/ /\ nodes'[n].nodesLoaded = nodes[n].nodesLoaded + 1
                /\ ChildReadyStep(n)
             \/ /\ nodes'[n].nodesLoaded = 0
                /\ nodes'[n].children = <<>>]_vars

\* C26: every node has no children or exactly four, and its subdivided flag
\* is true exactly when it has four children.
C26_ChildrenAndFlag ==
    \A n \in DOMAIN nodes :
        /\ Len(nodes[n].children) \in {0, CHILDRENS}
        /\ nodes[n].subdivided <=> Len(nodes[n].children) = CHILDRENS

\* the root is subdivided with four children, one of which was subdivided
\* and simplified again
C26_Witness ==
    /\ nodes[1].subdivided
    /\ Len(nodes[1].children) = CHILDRENS
    /\ \E c \in Range(nodes[1].children) :
          /\ ~nodes[c].subdivided
          /\ nodes[c].children = <<>>
          /\ Len(nodes[c].childrenCache) = CHILDRENS

\* the tile coordinates of node n lie in the grid of its level
InGrid(n) ==
    /\ nodes[n].x \in 0..(Pow(2, nodes[n].level) - 1)
    /\ nodes[n].y \in 0..(Pow(2, nodes[n].level) - 1)

\* C27: when the root tile lies in the grid of its level, so does every node
\* ever created, and every node with a parent is one level below it, at twice
\* the parent's x or one more, and at twice the parent's y or one more.
C27_TileCoordinates ==
    InGrid(1) =>
        \A n \in DOMAIN nodes :
            /\ InGrid(n)
            /\ nodes[n].parentNode # 0 =>
                  LET p == nodes[nodes[n].parentNode]
                  IN /\ nodes[n].level = p.level + 1
                     /\ nodes[n].x \in {2 * p.x, 2 * p.x + 1}
                     /\ nodes[n].y \in {2 * p.y, 2 * p.y + 1}

\* the bottom-right tile two levels below the root has been created
C27_Witness ==
    \E n \in DOMAIN nodes :
        /\ nodes[n].level = nodes[1].level + 2
        /\ nodes[n].x = 4 * nodes[1].x + 3
        /\ nodes[n].y = 4 * nodes[1].y + 3

\* C28: the candidates of a tick are the hits of all its rays, the first
\* ray's hits, then the second ray's hits, and so on; no hit is missing and
\* the order inside and across the rays is kept
RECURSIVE HitsUpTo(_, _)
HitsUpTo(rays, t) == IF t = 0 THEN <<>> ELSE HitsUpTo(rays, t - 1) \o rays[t]

C28_AllRaysConcatenated ==
    tick.rays # <<>> =>
        /\ DOMAIN tick.rays = 1..subdivisionRays
        /\ tick.intersects = HitsUpTo(tick.rays, subdivisionRays)

\* C29: the candidates of a tick are examined in hit order and the first
\* actionable one decides the single call of the tick: subdivide() on its node
\* when its score is above thresholdUp, otherwise simplify() on its parent
\* when its score is under thresholdDown and it has a parent.  A candidate
\* under thresholdDown without a parent is passed over, and a tick without an
\* actionable candidate, a tick without hits included, makes no call.
Actionable(i) ==
    \/ ScoreExceeds(TickScore(i), thresholdUp)
    \/ /\ ScoreUnder(TickScore(i), thresholdDown)
       /\ nodes[tick.intersects[i].object].parentNode # 0

C29_FirstActionableDecides ==
    LET actionable == {i \in DOMAIN tick.intersects : Actionable(i)}
    IN IF actionable = {}
       THEN tick.calls = <<>>
       ELSE LET first == CHOOSE i \in actionable : \A j \in actionable : i <= j
                node  == tick.intersects[first].object
            IN tick.calls =
                  << IF ScoreExceeds(TickScore(first), thresholdUp)
                     THEN [op |-> "subdivide", node |-> node, by |-> first]
                     ELSE [op |-> "simplify", node |-> nodes[node].parentNode,
                           by |-> first] >>

C29_Witness ==
    /\ Len(tick.intersects) = 2
    /\ nodes[tick.intersects[1].object].parentNode = 0
    /\ ScoreUnder(TickScore(1), thresholdDown)
    /\ Len(tick.calls) = 1
    /\ tick.calls[1].by = 2

C31_OneIntervalTimer ==
    /\ ext.intervalTimers <= 1
    /\ ext.lodUpdateInterval <=> ext.intervalTimers = 1
    /\ ~ext.loaded => ext.intervalTimers = 0

\* C31 witness: ticks have run on a map moved to another tile, and the
\* extension was unloaded
C31_Witness ==
    /\ ~ext.loaded
    /\ ext.ticks = 1
    /\ ext.defaultTileLocation # DefaultRoot
    /\ ext.intervalTimers = 0

\* C32: once a node was subdivided, had all four children loaded, was
\* simplified and was subdivided again from its cache, subdivide() on any of
\* those children below the provider's maxZoom is not held back by the test of
\* the parent's nodesLoaded and creates the child's four children.
RestoredLoaded(p) ==
    /\ nodes[p].children # <<>>
    /\ nodes[p].children = nodes[p].childrenCache
    /\ \A c \in Range(nodes[p].children) : nodes[c].visible /\ LoadedOnce(c)

C32_RestoredChildSubdivides ==
    \A p \in Attached(nodes) :
        RestoredLoaded(p) =>
            \A c \in Range(nodes[p].children) :
                (nodes[c].children = <<>> /\ nodes[c].childrenCache = <<>>
                    /\ nodes[c].level + 1 <= ProviderMaxZoom(provider))
                => Len(Subdivide(rootMode, heightProvider, ProviderMaxZoom(provider),
                                 nodes, c)[c].children) = CHILDRENS

\* C33: on one polyline tool the saved polylines are loaded, and drawn, at
\* most once however often it is activated and deactivated: activating a
\* tool that holds points, polylines or drawings leaves the points, the
\* polylines, the markers, the lines and the labels as they were.
C33_LoadedOnce ==
    /\ [](poly.loads <= 1)
    /\ [][(/\ ~poly.active /\ poly'.active
           /\ poly.points # <<>> \/ poly.polylines # <<>> \/ poly.pointMarkers > 0)
          => /\ poly'.loads = poly.loads
             /\ poly'.points = poly.points
             /\ poly'.polylines = poly.polylines
             /\ poly'.pointMarkers = poly.pointMarkers
             /\ poly'.lines = poly.lines
             /\ poly'.labels = poly.labels
         ]_vars

\* C38: what the polyline tool has persisted equals what it holds.  After
\* every operation that writes the stored data (a click that adds a point, a
\* finished polyline, clearAll) the stored currentPolyline.points are the points
\* in progress and the stored completedPolylines are the completed polylines;
\* after a polyline is finished the stored polyline in progress is empty.
C38_StoredEqualsMemory ==
    [][poly'.stored # poly.stored
       => /\ poly'.stored.currentPolyline.points = poly'.points
          /\ poly'.stored.completedPolylines = poly'.polylines
      ]_vars

\* C34: after any sequence of clicks on the mode buttons at most one of the
\* Quick Move, Full Align and Polyline tools is active; it is the tool that
\* currentMode names, and none when currentMode is 'none'; exactly the button
\* of that tool is in the ACTIVE state; and a click on the button of the
\* current mode sets currentMode to 'none'.
C34_ExclusiveModes ==
    /\ [](/\ quick.active <=> toolbar.currentMode = "quickMove"
          /\ full.active <=> toolbar.currentMode = "fullAlign"
          /\ poly.active <=> toolbar.currentMode = "polyline"
          /\ toolbar.quickMoveButton = "ACTIVE" <=> toolbar.currentMode = "quickMove"
          /\ toolbar.fullAlignButton = "ACTIVE" <=> toolbar.currentMode = "fullAlign"
          /\ toolbar.polylineButton = "ACTIVE" <=> toolbar.currentMode = "polyline"
          /\ toolbar.currentMode \in Modes \cup {"none"})
    /\ [][\A mode \in Modes :
             (toolbar.currentMode = mode /\ ToggleMode(mode))
                => toolbar'.currentMode = "none"]_vars

\* C34 witness: Full Align was switched on from another mode; the tool has a
\* point picked and the other two tools are inactive
C34_Witness ==
    /\ toolbar.currentMode = "fullAlign"
    /\ full.active /\ full.modelPoint1 # 0
    /\ ~quick.active /\ ~poly.active
    /\ poly.isDataLoaded

\* C36: for the Quick Move tool and the Full Align tool, in every reachable
\* state under activate, deactivate, clicks, Escape and the completion timer,
\* state is 'inactive' exactly when active is false.
C36_InactiveIffNotActive ==
    /\ quick.state = "inactive" <=> ~quick.active
    /\ full.state = "inactive" <=> ~full.active

\* C37: after Escape has cancelled an alignment, the completion timeout that
\* the cancelled alignment scheduled does nothing to an alignment started
\* afterwards: when it fires while the tool is picking the points of the next
\* alignment, the state, the picked points, the markers and lines of the tool
\* and the saved transforms stay as they are.  (With the tools kept active an
\* alignment whose timeout is pending leaves the state 'animating' by Escape
\* only, so a timeout that fires in a picking state with a point picked
\* belongs to a cancelled alignment.)
C37_CancelledTimerInert ==
    [][ /\ (/\ quick.state = "picking_terrain"
            /\ quick'.timers < quick.timers)
              => quick' = [quick EXCEPT !.timers = quick'.timers]
        /\ (/\ full.state \in {"picking_terrain_1", "picking_model_2", "picking_terrain_2"}
            /\ full.timers # <<>>
            /\ full'.timers = Tail(full.timers))
              => /\ full' = [full EXCEPT !.timers = Tail(@)]
                 /\ store' = store ]_vars

\* C35: buildGeoJSON emits one LineString feature for each distinct
\* completed polyline of two points or more (completed polylines with the
\* same point sequence are emitted once, polylines of fewer than two points
\* never), emits the polyline in progress only when it has two points or more
\* and its point sequence is not that of an emitted completed polyline, and
\* ends the features with exactly one 'current_location' Point feature.
FeaturePoints(feature) ==
    [i \in DOMAIN feature.coordinates |-> feature.coordinates[i].point]

C35_GeoJSONFeatures ==
    (exported.done /\ ~exported.threw) =>
        LET F         == exported.features
            n         == Len(F)
            data      == poly.stored
            distinct  == {c.points : c \in {d \in Range(data.completedPolylines) :
                                                Len(d.points) >= 2}}
            completed == {i \in 1..n : F[i].type = "LineString" /\ F[i].status = "none"}
            progress  == {i \in 1..n : F[i].type = "LineString"
                                          /\ F[i].status = "in_progress"}
            current   == data.currentPolyline.points
        IN /\ n >= 1
           /\ F[n].type = "Point" /\ F[n].id = <<"current_location", 0>>
           /\ \A i \in 1..(n - 1) : F[i].type = "LineString"
           /\ Cardinality(completed) = Cardinality(distinct)
           /\ {FeaturePoints(F[i]) : i \in completed} = distinct
           /\ Cardinality(progress) <= 1
           /\ progress # {} <=> (Len(current) >= 2 /\ current \notin distinct)
           /\ \A i \in progress : FeaturePoints(F[i]) = current

\* C35 witness: an export of three completed polylines, two of them with the
\* same points and one of a single point, and of a polyline in progress that
\* repeats a completed one: one LineString and the location are emitted
C35_Witness ==
    /\ exported.done /\ ~exported.threw
    /\ Len(poly.stored.completedPolylines) = 3
    /\ poly.stored.completedPolylines[1].points = <<1, 2>>
    /\ poly.stored.completedPolylines[2].points = <<1>>
    /\ poly.stored.completedPolylines[3].points = <<1, 2>>
    /\ poly.stored.completedPolylines[1].tileLocation # poly.stored.completedPolylines[3].tileLocation
    /\ poly.stored.currentPolyline.points = <<1, 2>>
    /\ Len(exported.features) = 2

\* C39: every map location the location panel writes to MapLocationStorage,
\* by the Go button, the Enter key or a preset button, has a numeric lat in
\* [-85, 85], lon in [-180, 180] and zoom in [0, 20]; and an input outside
\* these ranges is rejected: nothing is written and the tile location stays.
C39_StoredLocationInRange ==
    /\ [](LET item == storage.items["map-location-dialog"]
          IN item # NoItem =>
                /\ ~IsNaN(item.value.lat) /\ ~IsNaN(item.value.lon) /\ ~IsNaN(item.value.zoom)
                /\ ~OutOfRange(item.value.lat, item.value.lon, item.value.zoom))
    /\ [][ /\ \A lat \in LatInputs, lon \in LonInputs, zoom \in ZoomInputs,
                 available \in BOOLEAN :
                 (/\ IsNaN(lat) \/ IsNaN(lon) \/ IsNaN(zoom) \/ OutOfRange(lat, lon, zoom)
                  /\ LocationGo(lat, lon, zoom, available))
                    => UNCHANGED <<storage, ext, nodes>>
           /\ \A preset \in Presets, zoom \in PresetZoomInputs, available \in BOOLEAN :
                 (/\ OutOfRange(preset.lat, preset.lon, zoom)
                  /\ LocationPreset(preset, zoom, available))
                    => UNCHANGED <<storage, ext, nodes>> ]_vars

====
